---- MODULE Spec2Model ----
(***************************************************************************)
(* Synthetic-password unlock of credential-encrypted storage               *)
(* (Decrypt.cpp: Decrypt_User_Synth_Pass and the functions it drives).     *)
(*                                                                         *)
(* One run of Decrypt_User_Synth_Pass is a walk of the program counter pc  *)
(* through the function; each external call (file read, binder RPC,        *)
(* fscrypt call) is one step and is appended to the log `calls`.  The      *)
(* on-disk artifacts and the reachability of the weaver service are fixed  *)
(* at Init; what the remote services answer is drawn when they are called. *)
(*                                                                         *)
(* Spec starts at the entry of Decrypt_User_Synth_Pass, SpecTwoRuns calls  *)
(* it twice, SpecUser starts at the entry of Decrypt_User and              *)
(* SpecGetSpblobData applies Get_Spblob_Data to every small directory.     *)
(***************************************************************************)
EXTENDS Integers, Sequences, FiniteSets, TLC

VARIABLES
    Password,         \* the credential handed to Decrypt_User_Synth_Pass
    disk,             \* /data/system_de/<uid>/spblob/: suffix -> padding -> file
    weaverService,    \* whether the weaver HAL can be obtained
    pc,               \* position in Decrypt_User_Synth_Pass
    retval,           \* value returned through Free_Return
    calls,            \* external operations issued so far, in order
    password_token,   \* unsigned char password_token[PASSWORD_TOKEN_SIZE]
    application_id,   \* char application_id[PASSWORD_TOKEN_SIZE + SHA512_DIGEST_LENGTH]
    pwd,              \* password_data_struct pwd
    wd,               \* weaver_data_struct wd
    weaver_key,       \* void* weaver_key
    gkResponse,       \* GKResponse gkResponse
    spblob_data,      \* std::string spblob_data of unwrapSyntheticPasswordBlob
    keystore_result,  \* plaintext returned by the keystore finish()
    secret,           \* std::string secret (the disk decryption key)
    weaver_key_size,  \* uint32_t weaver_key_size
    oracle,           \* answers the environment has given, by call site
    run,              \* 1 in the first run, 2 in the repeated run
    prev,             \* outcome of the first run, kept for the repeated run
    user_id,          \* the user Decrypt_User is called for
    fs,               \* what stat() finds outside the spblob directory
    du,               \* the locals of Decrypt_User
    heap,             \* live malloc'd buffers held by locals Free_Return is not given
    kbr,              \* the locals of getKeystoreBinderRetry
    mnt,              \* arguments, configuration and locals of fscrypt_mount_metadata_encrypted
    dsu               \* what destroy_dsu_metadata_key finds, and its locals

vars == <<Password, disk, weaverService, pc, retval, calls, password_token,
          application_id, pwd, wd, weaver_key, gkResponse, spblob_data,
          keystore_result, secret, weaver_key_size, oracle, run, prev,
          user_id, fs, du, heap, kbr, mnt, dsu>>

(***************************************************************************)
(* Bounds of the model                                                     *)
(***************************************************************************)
\* .spblob version bytes range over 0..MaxVersion
MaxVersion == 3
\* .spblob type bytes range over 0..MaxType
MaxType == 1
\* bytes left on the stack by earlier calls range over 0..MaxGarbage
MaxGarbage == 1
\* .secdis contents are <<1>> .. <<MaxSecdis>>
MaxSecdis == 2

(***************************************************************************)
(* Program constants                                                       *)
(***************************************************************************)
PASSWORD_TOKEN_SIZE == 32
SHA512_DIGEST_LENGTH == 64
SYNTHETIC_PASSWORD_VERSION_V1 == 1
SYNTHETIC_PASSWORD_VERSION_V2 == 2
SYNTHETIC_PASSWORD_VERSION_V3 == 3
SYNTHETIC_PASSWORD_PASSWORD_BASED == 0
\* number of zero-padded file name variants tried by Get_Spblob_Data
NumPadded == 2
\* gatekeeper status codes compared at the verify call sites
STATUS_OK == 0
ERROR_RETRY_TIMEOUT == -2

NULL == <<"null">>

Suffixes == {".pwd", ".spblob", ".weaver", ".secdis"}
Pads == 0..NumPadded

\* The credential "!" stands for the default password.
DefaultCredential == "!"
Credentials == {DefaultCredential, "1234"}

\* std::string defpassword = "default-password" as ASCII bytes
defpassword == <<100, 101, 102, 97, 117, 108, 116, 45,
                 112, 97, 115, 115, 119, 111, 114, 100>>

(***************************************************************************)
(* Byte buffers.  A byte is either a literal <<"lit", v>> or one byte of   *)
(* the output of a hash / KDF, kept symbolic.                              *)
(***************************************************************************)
Lit(v) == <<"lit", v>>
\* a stack slot the function has not written yet
Uninit == <<"uninit", 0>>
LitSeq(s) == [i \in 1..Len(s) |-> Lit(s[i])]

\* memcpy(dst + off, src, n): bytes off+1..off+n of dst replaced by src[1..n]
memcpy(dst, off, src, n) ==
    [i \in 1..Len(dst) |-> IF i > off /\ i <= off + n THEN src[i - off] ELSE dst[i]]

\* crypto_scrypt(passwd, salt, N, r, p, buf, 32): the 32 output bytes
crypto_scrypt(passwd, salt, N, r, p) ==
    [i \in 1..PASSWORD_TOKEN_SIZE |-> <<"scrypt", i, passwd, salt, N, r, p>>]

\* PersonalizedHashBinary(label, data, len): SHA-512(pad_128(label) || data),
\* a pointer to a SHA512_DIGEST_LENGTH byte buffer
PersonalizedHashBinary(label, data) == <<"sha512", label, data>>

\* the bytes of a digest buffer
DigestBytes(h) == [i \in 1..SHA512_DIGEST_LENGTH |-> <<"dig", i, h>>]

\* PersonalizedHash(label, data, len): the hex string of the personalized SHA-512
PersonalizedHash(label, data) == <<"hex-sha512", label, data>>

\* PersonalizedHashSP800(label, context, data, len): SP800-108 counter-mode KDF
PersonalizedHashSP800(label, context, data) == <<"sp800", label, context, data>>

(***************************************************************************)
(* Files                                                                   *)
(***************************************************************************)
Absent == [exists |-> FALSE, readable |-> FALSE, data |-> <<>>]
File(bytes) == [exists |-> TRUE, readable |-> TRUE, data |-> bytes]
Unreadable == [exists |-> TRUE, readable |-> FALSE, data |-> <<>>]

\* a directory entry set with one file, stored under the name with `pad` zeros
OnlyAt(pad, f) == [p \in Pads |-> IF p = pad THEN f ELSE Absent]
NoFile == [p \in Pads |-> Absent]

\* android::vold::pathExists(path)
pathExists(d, suffix, pad) == d[suffix][pad].exists

\* android::base::ReadFileToString(path, &data)
ReadFileToString(d, suffix, pad) ==
    IF d[suffix][pad].readable
    THEN [ok |-> TRUE, data |-> d[suffix][pad].data]
    ELSE [ok |-> FALSE, data |-> <<>>]

\* byte at offset `off` (from 0) of a std::string's data(): the string is
\* followed by one NUL; what lies further is whatever memory holds (oob)
ByteAt(data, off, oob) ==
    IF off < Len(data) THEN data[off + 1]
    ELSE IF off = Len(data) THEN 0 ELSE oob

\* a 32-bit two's-complement value from four bytes, most significant first
Int32(b3, b2, b1, b0) ==
    LET hi == IF b3 >= 128 THEN b3 - 256 ELSE b3
    IN  ((hi * 256 + b2) * 256 + b1) * 256 + b0

(***************************************************************************)
(* Blob store                                                              *)
(***************************************************************************)
\* the lookup as it would be if an unreadable <handle><suffix> let the
\* zero-padded names be tried
Get_Spblob_Data_FirstReadable(d, suffix) ==
    IF \E p \in Pads : ReadFileToString(d, suffix, p).ok
    THEN LET p == CHOOSE q \in Pads :
                     /\ ReadFileToString(d, suffix, q).ok
                     /\ \A o \in 0..(q - 1) : ~ReadFileToString(d, suffix, o).ok
         IN  [found |-> TRUE, data |-> ReadFileToString(d, suffix, p).data]
    ELSE [found |-> FALSE, data |-> <<>>]

\* Get_Spblob_Data: <handle><suffix> if it exists (and then only it), else
\* the first of 0<handle><suffix>, 00<handle><suffix> that can be read
Get_Spblob_Data(d, suffix) ==
    IF pathExists(d, suffix, 0)
    THEN [found |-> ReadFileToString(d, suffix, 0).ok,
          data  |-> ReadFileToString(d, suffix, 0).data]
    ELSE IF \E p \in 1..NumPadded : ReadFileToString(d, suffix, p).ok
         THEN LET p == CHOOSE q \in 1..NumPadded :
                          /\ ReadFileToString(d, suffix, q).ok
                          /\ \A o \in 1..(q - 1) : ~ReadFileToString(d, suffix, o).ok
              IN  [found |-> TRUE, data |-> ReadFileToString(d, suffix, p).data]
         ELSE [found |-> FALSE, data |-> <<>>]

\* malloc(n) of an int n: a negative n is a size no allocator satisfies
MallocFails(n) == n < 0

\* the password_data_struct as Decrypt_User_Synth_Pass initialises it
EmptyPwd == [password_type |-> Uninit, scryptN |-> Uninit, scryptR |-> Uninit,
             scryptP |-> Uninit, salt_len |-> 0, salt |-> NULL,
             handle_len |-> 0, password_handle |-> NULL]

\* copies of more than MaxCopy bytes are kept as the memory range they read
MaxCopy == 8

\* memcpy(dst, data + from, n) into a fresh buffer: the n bytes copied
CopyOut(data, from, n, oob) ==
    IF n > MaxCopy THEN <<"memory", from, n>>
    ELSE [i \in 1..n |-> ByteAt(data, from + i - 1, oob)]

\* Get_Password_Data on the bytes of the .pwd file: [ok, pwd]
ParsePasswordData(p0, data, oob) ==
    LET B(off) == ByteAt(data, off, oob)
        type == Int32(B(0), B(1), B(2), B(3))
        slen == Int32(B(7), B(8), B(9), B(10))
        p1 == [p0 EXCEPT !.password_type = type, !.scryptN = B(4),
                         !.scryptR = B(5), !.scryptP = B(6), !.salt_len = slen]
        hoff == 11 + slen
        hlen == Int32(B(hoff), B(hoff + 1), B(hoff + 2), B(hoff + 3))
        p2 == [p1 EXCEPT !.salt = CopyOut(data, 11, slen, oob), !.handle_len = hlen]
    IN  IF slen = 0 \/ MallocFails(slen) THEN [ok |-> FALSE, pwd |-> p1]
        ELSE IF hlen = 0 THEN [ok |-> TRUE, pwd |-> p2]
        ELSE IF MallocFails(hlen) THEN [ok |-> FALSE, pwd |-> p2]
        ELSE [ok |-> TRUE,
              pwd |-> [p2 EXCEPT !.password_handle =
                                    CopyOut(data, hoff + 4, hlen, oob)]]

\* Get_Password_Data(spblob_path, handle_str, &pwd)
Get_Password_Data(d, p0, oob) ==
    IF ~Get_Spblob_Data(d, ".pwd").found THEN [ok |-> FALSE, pwd |-> p0]
    ELSE ParsePasswordData(p0, Get_Spblob_Data(d, ".pwd").data, oob)

\* Get_Weaver_Data: only <handle>.weaver is read; the slot is the host-endian
\* (little-endian) int at ((const int*)data) + sizeof(unsigned char)
Get_Weaver_Data(d, oob) ==
    LET r == ReadFileToString(d, ".weaver", 0)
        B(off) == ByteAt(r.data, off, oob)
        at == 4 * 1
    IN  IF ~r.ok THEN [ok |-> FALSE, version |-> Uninit, slot |-> Uninit]
        ELSE [ok |-> TRUE, version |-> B(0),
              slot |-> Int32(B(at + 3), B(at + 2), B(at + 1), B(at))]

\* Is_Weaver as it would be if it tolerated the zero-padded names
Is_Weaver_AnyName(d) == \E p \in Pads : pathExists(d, ".weaver", p)

\* Is_Weaver: stat() of <handle>.weaver
Is_Weaver(d) == pathExists(d, ".weaver", 0)

\* Get_Secdis
Get_Secdis(d) == Get_Spblob_Data(d, ".secdis")

(***************************************************************************)
(* The environment: artifacts on disk and the answers of the services      *)
(***************************************************************************)
\* a small int as the four big-endian bytes of the .pwd format
BE32(n) == IF n < 0 THEN <<255, 255, 255, 256 + n>> ELSE <<0, 0, 0, n>>

\* .pwd: i32 password_type | scryptN | scryptR | scryptP | i32 salt_len | salt
\*       | i32 handle_len | handle
PwdBytes(type, salt, handle) ==
    BE32(type) \o <<4, 3, 1>> \o BE32(Len(salt)) \o salt \o BE32(Len(handle)) \o handle

PwdDirs == {NoFile,
            OnlyAt(0, File(PwdBytes(2, <<9>>, <<8>>))),
            OnlyAt(2, File(PwdBytes(2, <<9>>, <<8>>))),
            OnlyAt(0, File(PwdBytes(2, <<9>>, <<>>))),
            OnlyAt(0, File(PwdBytes(2, <<>>, <<8>>)))}

\* .weaver: u8 version | i32 slot
WeaverBytes == <<1, 7, 0, 0, 0>>
WeaverDirs == {NoFile, OnlyAt(0, Unreadable)}
              \cup {OnlyAt(p, File(WeaverBytes)) : p \in Pads}

SecdisDirs == {NoFile, OnlyAt(1, File(<<1>>))}
              \cup {OnlyAt(0, File(<<c>>)) : c \in 1..MaxSecdis}

\* .spblob: u8 version | u8 type | u8[12] iv | ciphertext_with_tag
SpblobBytes(v, t) == <<v, t>> \o <<1, 1, 1, 1, 1, 1, 1, 1, 1, 1, 1, 1>> \o <<5, 6>>
SpblobDirs == {NoFile, OnlyAt(1, File(SpblobBytes(SYNTHETIC_PASSWORD_VERSION_V2, 0)))}
              \cup {OnlyAt(0, File(SpblobBytes(v, t))) : v \in 0..MaxVersion, t \in 0..MaxType}

Disks == {[s \in Suffixes |-> CASE s = ".pwd" -> p [] s = ".weaver" -> w
                                [] s = ".secdis" -> sd [] OTHER -> sb] :
             p \in PwdDirs, w \in WeaverDirs, sd \in SecdisDirs, sb \in SpblobDirs}

\* the answer of call site `site`: the one already given, else any of S
Draw(site, S) == IF site \in DOMAIN oracle THEN {oracle[site]} ELSE S
Answered(site, r) ==
    [s \in DOMAIN oracle \cup {site} |-> IF s = site THEN r ELSE oracle[s]]

\* Weaver::GetKeySize answers
KeySizeAnswers == {[ok |-> FALSE, size |-> 0], [ok |-> TRUE, size |-> 16],
                   [ok |-> TRUE, size |-> SHA512_DIGEST_LENGTH]}
\* weaver read() status and payload
WeaverAnswers == {[status |-> "OK", payload |-> <<3>>],
                  [status |-> "FAILED", payload |-> <<>>],
                  [status |-> "INCORRECT_KEY", payload |-> <<>>],
                  [status |-> "THROTTLE", payload |-> <<>>]}
\* which gatekeeper HAL the service manager yields
GkDevices == {"aidl", "hidl", "none"}
\* gatekeeper status codes: ERROR_NOT_IMPLEMENTED .. STATUS_REENROLL
GkCodes == -3..1
HwAuthToken == <<"hw_auth_token">>
AidlVerifyAnswers == {[statusCode |-> c] : c \in GkCodes}
HidlVerifyAnswers == {[isOk |-> FALSE, code |-> -1, data |-> <<>>]}
                     \cup {[isOk |-> TRUE, code |-> c, data |-> <<>>] : c \in GkCodes}
                     \cup {[isOk |-> TRUE, code |-> c, data |-> HwAuthToken] : c \in STATUS_OK..1}
KeyEntryAnswers == {"OK", "KEY_NOT_FOUND", "SYSTEM_ERROR"}
\* keystore finish(): the inner envelope iv(12) | payload | tag(16), and
\* whether its GCM tag authenticates under the key that the application id
\* yields; an envelope shorter than its iv leaves a negative cipher size
FinishAnswers == {[ok |-> FALSE, size |-> 0, authentic |-> FALSE],
                  [ok |-> TRUE, size |-> 8, authentic |-> FALSE]}
                 \cup {[ok |-> TRUE, size |-> 12 + 32 + 16, authentic |-> a] :
                          a \in BOOLEAN}

\* GKResponse values
GKResponse_ok(payload) == [response_code |-> "OK", payload |-> payload]
GKResponse_retry == [response_code |-> "RETRY", payload |-> <<>>]
GKResponse_error == [response_code |-> "ERROR", payload |-> <<>>]

(***************************************************************************)
(* Decrypt_User_Synth_Pass                                                 *)
(***************************************************************************)
\* the locals of a fresh call frame (lines 689-712)
FreshFrame ==
    [pc |-> "start",
     retval |-> FALSE,
     calls |-> <<>>,
     password_token |-> [i \in 1..PASSWORD_TOKEN_SIZE |-> Uninit],
     application_id |-> [i \in 1..(PASSWORD_TOKEN_SIZE + SHA512_DIGEST_LENGTH) |-> Uninit],
     pwd |-> EmptyPwd,
     wd |-> [version |-> Uninit, slot |-> Uninit],
     weaver_key |-> NULL,
     gkResponse |-> GKResponse_error,
     spblob_data |-> <<>>,
     keystore_result |-> [size |-> 0, authentic |-> FALSE],
     secret |-> <<>>,
     weaver_key_size |-> 0]

\* a file system with the spblob directories and no legacy key file
SyntheticFs == [spblob_dir |-> TRUE, spblob_dir0 |-> TRUE,
                password_key |-> Absent, pattern_key |-> Absent]

\* the locals of Decrypt_User before it has run: std::string filename, and
\* ret, auth_token, auth_token_len, which are declared without an initialiser
IdleUser == [type |-> Uninit, filename |-> "", secret |-> <<>>, fallback |-> FALSE,
             ret |-> Uninit, auth_token |-> Uninit, auth_token_len |-> Uninit]

\* the other entry points, not entered
IdleKbr == [retry_count |-> Uninit, binder |-> Uninit, answers |-> <<>>, waits |-> 0]
IdleMnt == <<>>
IdleDsu == <<>>

Init ==
    /\ Password \in Credentials
    /\ disk \in Disks
    /\ weaverService \in BOOLEAN
    /\ oracle = <<>>
    /\ run = 1
    /\ prev = <<>>
    /\ user_id = 0
    /\ fs = SyntheticFs
    /\ du = IdleUser
    /\ heap = {}
    /\ kbr = IdleKbr
    /\ mnt = IdleMnt
    /\ dsu = IdleDsu
    /\ pc = FreshFrame.pc
    /\ retval = FreshFrame.retval
    /\ calls = FreshFrame.calls
    /\ password_token = FreshFrame.password_token
    /\ application_id = FreshFrame.application_id
    /\ pwd = FreshFrame.pwd
    /\ wd = FreshFrame.wd
    /\ weaver_key = FreshFrame.weaver_key
    /\ gkResponse = FreshFrame.gkResponse
    /\ spblob_data = FreshFrame.spblob_data
    /\ keystore_result = FreshFrame.keystore_result
    /\ secret = FreshFrame.secret
    /\ weaver_key_size = FreshFrame.weaver_key_size

\* what no step of Decrypt_User_Synth_Pass changes
world == <<Password, disk, weaverService, run, prev, user_id, fs, du, kbr, mnt, dsu>>
\* what a step that neither allocates nor frees leaves alone
env == <<world, heap>>

\* return Free_Return(retval, weaver_key, &pwd)
Free_Return(rv) == pc' = "done" /\ retval' = rv

\* lines 713-717: Get_Password_Data for a non-default credential
ReadPasswordData ==
    /\ pc = "start"
    /\ Password # DefaultCredential
    /\ \E oob \in 0..MaxGarbage :
        LET r == Get_Password_Data(disk, pwd, oob)
        IN  /\ pwd' = r.pwd
            /\ calls' = Append(calls, "fs.read.pwd")
            /\ IF r.ok THEN pc' = "scrypt" /\ retval' = retval
                       ELSE Free_Return(FALSE)
    /\ UNCHANGED <<env, oracle, password_token, application_id, wd, weaver_key,
                   gkResponse, spblob_data, keystore_result, secret, weaver_key_size>>

\* lines 719-722: Get_Password_Token
Get_Password_Token ==
    /\ pc = "scrypt"
    /\ \E ok \in Draw("scrypt", BOOLEAN) :
        /\ oracle' = Answered("scrypt", ok)
        /\ calls' = Append(calls, "scrypt")
        /\ IF ok
           THEN /\ password_token' = crypto_scrypt(Password, pwd.salt, 2^pwd.scryptN,
                                                   2^pwd.scryptR, 2^pwd.scryptP)
                /\ pc' = "is_weaver" /\ retval' = retval
           ELSE /\ password_token' = password_token
                /\ Free_Return(FALSE)
    /\ UNCHANGED <<env, application_id, pwd, wd, weaver_key, gkResponse,
                   spblob_data, keystore_result, secret, weaver_key_size>>

\* lines 712 and 723-727: the default password is copied over the first
\* bytes of password_token, which is declared without an initialiser: the
\* other bytes keep what the stack held
DefaultPassword ==
    /\ pc = "start"
    /\ Password = DefaultCredential
    /\ \E stack \in Draw("stack", 0..MaxGarbage) :
        /\ oracle' = Answered("stack", stack)
        /\ password_token' =
               memcpy([i \in 1..PASSWORD_TOKEN_SIZE |-> Lit(stack)], 0,
                      LitSeq(defpassword), Len(defpassword))
    /\ calls' = Append(calls, "copySqliteDb")
    /\ pc' = "is_weaver"
    /\ UNCHANGED <<env, retval, application_id, pwd, wd, weaver_key,
                   gkResponse, spblob_data, keystore_result, secret, weaver_key_size>>

\* the branch as it would be if an unreachable weaver service made the run
\* fall back to the secdis path
ChoosePath_FallBack ==
    /\ pc = "is_weaver"
    /\ calls' = Append(calls, "fs.stat.weaver")
    /\ pc' = IF Is_Weaver(disk) /\ weaverService THEN "weaver_data" ELSE "secdis"
    /\ UNCHANGED <<env, oracle, retval, password_token, application_id, pwd, wd,
                   weaver_key, gkResponse, spblob_data, keystore_result, secret,
                   weaver_key_size>>

\* line 729: the branch on Is_Weaver
ChoosePath ==
    /\ pc = "is_weaver"
    /\ calls' = Append(calls, "fs.stat.weaver")
    /\ pc' = IF Is_Weaver(disk) THEN "weaver_data" ELSE "secdis"
    /\ UNCHANGED <<env, oracle, retval, password_token, application_id, pwd, wd,
                   weaver_key, gkResponse, spblob_data, keystore_result, secret,
                   weaver_key_size>>

\* application_id = password_token || second (lines 778-779, 794-795)
BuildApplicationId(app, token, second) ==
    memcpy(memcpy(app, 0, token, PASSWORD_TOKEN_SIZE),
           PASSWORD_TOKEN_SIZE, DigestBytes(second), SHA512_DIGEST_LENGTH)

\* lines 734-745: Get_Weaver_Data and the weaver key
GetWeaverData ==
    /\ pc = "weaver_data"
    /\ \E oob \in 0..MaxGarbage :
        LET r == Get_Weaver_Data(disk, oob)
        IN  /\ calls' = Append(calls, "fs.read.weaver")
            /\ wd' = [version |-> r.version, slot |-> r.slot]
            /\ IF r.ok
               THEN /\ weaver_key' = PersonalizedHashBinary("weaver-key", password_token)
                    /\ pc' = "weaver_service" /\ retval' = retval
               ELSE /\ weaver_key' = weaver_key
                    /\ Free_Return(FALSE)
    /\ UNCHANGED <<env, oracle, password_token, application_id, pwd, gkResponse,
                   spblob_data, keystore_result, secret, weaver_key_size>>

\* lines 748-752: android::vold::Weaver weaver
WeaverConnect ==
    /\ pc = "weaver_service"
    /\ calls' = Append(calls, "weaver.getService")
    /\ IF weaverService THEN pc' = "weaver_keysize" /\ retval' = retval
                        ELSE Free_Return(FALSE)
    /\ UNCHANGED <<env, oracle, password_token, application_id, pwd, wd, weaver_key,
                   gkResponse, spblob_data, keystore_result, secret, weaver_key_size>>

\* lines 754-760: weaver.GetKeySize
WeaverGetKeySize ==
    /\ pc = "weaver_keysize"
    /\ \E r \in Draw("weaver.GetKeySize", KeySizeAnswers) :
        /\ oracle' = Answered("weaver.GetKeySize", r)
        /\ calls' = Append(calls, "weaver.GetKeySize")
        /\ weaver_key_size' = r.size
        /\ IF r.ok THEN pc' = "weaver_verify" /\ retval' = retval
                   ELSE Free_Return(FALSE)
    /\ UNCHANGED <<env, password_token, application_id, pwd, wd, weaver_key,
                   gkResponse, spblob_data, keystore_result, secret>>

\* the verify step as it would be if the status of the read were not looked at
WeaverVerify_IgnoreStatus ==
    /\ pc = "weaver_verify"
    /\ \E r \in Draw("weaver.WeaverVerify", WeaverAnswers) :
        /\ oracle' = Answered("weaver.WeaverVerify", r)
        /\ calls' = Append(calls, "weaver.WeaverVerify")
        /\ application_id' =
               BuildApplicationId(application_id, password_token,
                   PersonalizedHashBinary("weaver-pwd", r.payload))
        /\ heap' = heap \cup {"weaver_secret"}
        /\ pc' = "unwrap" /\ retval' = retval
    /\ UNCHANGED <<world, password_token, pwd, wd, weaver_key, gkResponse,
                   spblob_data, keystore_result, secret, weaver_key_size>>

\* lines 763-779: weaver.WeaverVerify and the application id of the weaver
\* path; the weaver_secret buffer of line 775 is not freed
WeaverVerify ==
    /\ pc = "weaver_verify"
    /\ \E r \in Draw("weaver.WeaverVerify", WeaverAnswers) :
        /\ oracle' = Answered("weaver.WeaverVerify", r)
        /\ calls' = Append(calls, "weaver.WeaverVerify")
        /\ IF r.status = "OK"
           THEN /\ application_id' =
                       BuildApplicationId(application_id, password_token,
                           PersonalizedHashBinary("weaver-pwd", r.payload))
                /\ heap' = heap \cup {"weaver_secret"}
                /\ pc' = "unwrap" /\ retval' = retval
           ELSE /\ application_id' = application_id
                /\ heap' = heap
                /\ Free_Return(FALSE)
    /\ UNCHANGED <<world, password_token, pwd, wd, weaver_key, gkResponse,
                   spblob_data, keystore_result, secret, weaver_key_size>>

\* lines 783-796: Get_Secdis and the application id of the secdis path; the
\* secdiscardable buffer of line 789 is not freed
GetSecdis ==
    /\ pc = "secdis"
    /\ calls' = Append(calls, "fs.read.secdis")
    /\ IF Get_Secdis(disk).found
       THEN /\ application_id' =
                   BuildApplicationId(application_id, password_token,
                       PersonalizedHashBinary("secdiscardable-transform",
                                              Get_Secdis(disk).data))
            /\ heap' = heap \cup {"secdiscardable"}
            /\ pc' = IF Password # DefaultCredential THEN "gk_service" ELSE "unwrap"
            /\ retval' = retval
       ELSE /\ application_id' = application_id
            /\ heap' = heap
            /\ Free_Return(FALSE)
    /\ UNCHANGED <<world, oracle, password_token, pwd, wd, weaver_key, gkResponse,
                   spblob_data, keystore_result, secret, weaver_key_size>>

\* the lookup as it would be without the return at line 813
GetGatekeeper_NoReturn ==
    /\ pc = "gk_service"
    /\ \E dev \in Draw("gk.getService", GkDevices) :
        /\ oracle' = Answered("gk.getService", dev)
        /\ calls' = Append(calls, "gk.getService")
        /\ pc' = IF dev = "aidl" THEN "gk_aidl"
                 ELSE IF dev = "hidl" THEN "gk_hidl" ELSE "unwrap"
        /\ retval' = retval
    /\ UNCHANGED <<env, password_token, application_id, pwd, wd, weaver_key,
                   gkResponse, spblob_data, keystore_result, secret, weaver_key_size>>

\* lines 797-814: the AIDL gatekeeper if declared, else the HIDL one
GetGatekeeper ==
    /\ pc = "gk_service"
    /\ \E dev \in Draw("gk.getService", GkDevices) :
        /\ oracle' = Answered("gk.getService", dev)
        /\ calls' = Append(calls, "gk.getService")
        /\ IF dev = "none" THEN Free_Return(FALSE)
           ELSE /\ pc' = IF dev = "aidl" THEN "gk_aidl" ELSE "gk_hidl"
                /\ retval' = retval
    /\ UNCHANGED <<env, password_token, application_id, pwd, wd, weaver_key,
                   gkResponse, spblob_data, keystore_result, secret, weaver_key_size>>

\* lines 817-848: verify through the AIDL gatekeeper
GkVerifyAidl ==
    /\ pc = "gk_aidl"
    /\ IF pwd.handle_len <= 0
       THEN /\ Free_Return(FALSE)
            /\ UNCHANGED <<oracle, calls, gkResponse>>
       ELSE \E rsp \in Draw("gk.verify.aidl", AidlVerifyAnswers) :
            /\ oracle' = Answered("gk.verify.aidl", rsp)
            /\ calls' = Append(calls, "gk.verify")
            /\ IF rsp.statusCode >= STATUS_OK
               THEN /\ gkResponse' = GKResponse_ok(HwAuthToken)
                    /\ pc' = "auth_token" /\ retval' = retval
               ELSE IF rsp.statusCode = ERROR_RETRY_TIMEOUT
               THEN /\ gkResponse' = GKResponse_retry
                    /\ Free_Return(FALSE)
               ELSE /\ gkResponse' = GKResponse_error
                    /\ Free_Return(FALSE)
    /\ UNCHANGED <<env, password_token, application_id, pwd, wd, weaver_key,
                   spblob_data, keystore_result, secret, weaver_key_size>>

\* lines 849-891: verify through the HIDL gatekeeper; the callback only
\* records the response, the transport status alone decides the return
GkVerifyHidl ==
    /\ pc = "gk_hidl"
    /\ IF pwd.handle_len <= 0
       THEN /\ Free_Return(FALSE)
            /\ UNCHANGED <<oracle, calls, gkResponse>>
       ELSE \E rsp \in Draw("gk.verify.hidl", HidlVerifyAnswers) :
            /\ oracle' = Answered("gk.verify.hidl", rsp)
            /\ calls' = Append(calls, "gk.verify")
            /\ IF ~rsp.isOk
               THEN /\ gkResponse' = gkResponse
                    /\ Free_Return(FALSE)
               ELSE /\ gkResponse' =
                          IF rsp.code >= STATUS_OK THEN GKResponse_ok(rsp.data)
                          ELSE IF rsp.code = ERROR_RETRY_TIMEOUT THEN GKResponse_retry
                          ELSE GKResponse_error
                    /\ pc' = "auth_token" /\ retval' = retval
    /\ UNCHANGED <<env, password_token, application_id, pwd, wd, weaver_key,
                   spblob_data, keystore_result, secret, weaver_key_size>>

\* the hand-over as it would be if the token were forwarded only once the
\* keystore operation exists
AddAuthToken_Late ==
    \/ /\ pc = "auth_token"
       /\ pc' = "unwrap"
       /\ UNCHANGED <<env, oracle, calls, retval, password_token, application_id, pwd,
                      wd, weaver_key, gkResponse, spblob_data, keystore_result,
                      secret, weaver_key_size>>
    \/ /\ pc = "ks_finish"
       /\ gkResponse.response_code = "OK" /\ Len(gkResponse.payload) # 0
       /\ \A i \in 1..Len(calls) : calls[i] # "authz.addAuthToken"
       /\ calls' = calls \o <<"authz.getService", "authz.addAuthToken">>
       /\ UNCHANGED <<env, oracle, pc, retval, password_token, application_id, pwd,
                      wd, weaver_key, gkResponse, spblob_data, keystore_result,
                      secret, weaver_key_size>>

\* lines 892-913: hand the auth token to the authorization service.  The
\* service pointer is used whether or not the lookup succeeded; a call
\* through the null pointer faults.
AddAuthToken ==
    /\ pc = "auth_token"
    /\ IF gkResponse.response_code = "OK" /\ Len(gkResponse.payload) # 0
       THEN \E up \in Draw("authz.getService", BOOLEAN) :
            /\ oracle' = Answered("authz.getService", up)
            /\ IF up
               THEN /\ calls' = calls \o <<"authz.getService", "authz.addAuthToken">>
                    /\ pc' = "unwrap"
               ELSE /\ calls' = calls \o <<"authz.getService", "authz.addAuthToken.null">>
                    /\ pc' = "crashed"
       ELSE /\ pc' = "unwrap"
            /\ UNCHANGED <<oracle, calls>>
    /\ UNCHANGED <<env, retval, password_token, application_id, pwd, wd, weaver_key,
                   gkResponse, spblob_data, keystore_result, secret, weaver_key_size>>

(***************************************************************************)
(* unwrapSyntheticPasswordBlob                                             *)
(***************************************************************************)
\* the header check as it would be without the version test of lines 499-503
SpblobVerdict_AnyVersion(data, oob) ==
    LET version == ByteAt(data, 0, oob)
        type == ByteAt(data, 1, oob)
    IN  IF type # SYNTHETIC_PASSWORD_PASSWORD_BASED THEN "not password based"
        ELSE IF version = SYNTHETIC_PASSWORD_VERSION_V1 THEN "nothing to do"
        ELSE "unwrap"

\* the header check as it would be if version 1 were unwrapped like 2 and 3
SpblobVerdict_LegacyUnwrapped(data, oob) ==
    LET version == ByteAt(data, 0, oob)
        type == ByteAt(data, 1, oob)
    IN  IF /\ version # SYNTHETIC_PASSWORD_VERSION_V2
           /\ version # SYNTHETIC_PASSWORD_VERSION_V1
           /\ version # SYNTHETIC_PASSWORD_VERSION_V3
        THEN "unsupported version"
        ELSE IF type # SYNTHETIC_PASSWORD_PASSWORD_BASED
        THEN "not password based"
        ELSE "unwrap"

\* lines 498-512: what the first two bytes of the .spblob allow
SpblobVerdict(data, oob) ==
    LET version == ByteAt(data, 0, oob)
        type == ByteAt(data, 1, oob)
    IN  IF /\ version # SYNTHETIC_PASSWORD_VERSION_V2
           /\ version # SYNTHETIC_PASSWORD_VERSION_V1
           /\ version # SYNTHETIC_PASSWORD_VERSION_V3
        THEN "unsupported version"
        ELSE IF type # SYNTHETIC_PASSWORD_PASSWORD_BASED
        THEN "not password based"
        ELSE IF \/ version = SYNTHETIC_PASSWORD_VERSION_V2
                \/ version = SYNTHETIC_PASSWORD_VERSION_V3
        THEN "unwrap"
        ELSE "nothing to do"

\* lines 489-512, 632 and 922-925: read the .spblob and check its header;
\* an empty secret makes Decrypt_User_Synth_Pass return false
ReadSpblob ==
    /\ pc = "unwrap"
    /\ calls' = Append(calls, "fs.read.spblob")
    /\ spblob_data' = Get_Spblob_Data(disk, ".spblob").data
    /\ \E oob \in 0..MaxGarbage :
        IF /\ Get_Spblob_Data(disk, ".spblob").found
           /\ SpblobVerdict(Get_Spblob_Data(disk, ".spblob").data, oob) = "unwrap"
        THEN pc' = "ks_getKeyEntry" /\ retval' = retval
        ELSE Free_Return(FALSE)
    /\ UNCHANGED <<env, oracle, password_token, application_id, pwd, wd, weaver_key,
                   gkResponse, keystore_result, secret, weaver_key_size>>

\* lines 549-561: look the keystore service up and get the key entry; the
\* service pointer is used unchecked, a call through the null pointer faults
KsGetKeyEntry ==
    /\ pc = "ks_getKeyEntry"
    /\ \E up \in Draw("ks.checkService", BOOLEAN) :
       \E rc \in Draw("ks.getKeyEntry", KeyEntryAnswers) :
        IF up
        THEN /\ oracle' = [s \in DOMAIN oracle \cup {"ks.checkService", "ks.getKeyEntry"} |->
                              IF s = "ks.checkService" THEN up
                              ELSE IF s = "ks.getKeyEntry" THEN rc ELSE oracle[s]]
             /\ calls' = calls \o <<"ks.checkService", "ks.getKeyEntry">>
             /\ IF rc = "OK" THEN pc' = "ks_createOperation" /\ retval' = retval
                             ELSE Free_Return(FALSE)
        ELSE /\ oracle' = Answered("ks.checkService", up)
             /\ calls' = Append(calls, "ks.checkService")
             /\ pc' = "crashed" /\ retval' = retval
    /\ UNCHANGED <<env, password_token, application_id, pwd, wd, weaver_key,
                   gkResponse, spblob_data, keystore_result, secret, weaver_key_size>>

\* createOperation as it would be without the return at line 570
KsCreateOperation_NoReturn ==
    /\ pc = "ks_createOperation"
    /\ \E ok \in Draw("ks.createOperation", BOOLEAN) :
        /\ oracle' = Answered("ks.createOperation", ok)
        /\ calls' = Append(calls, "ks.createOperation")
        /\ pc' = "ks_finish" /\ retval' = retval
    /\ UNCHANGED <<env, password_token, application_id, pwd, wd, weaver_key,
                   gkResponse, spblob_data, keystore_result, secret, weaver_key_size>>

\* lines 564-571: createOperation (the keystore begin)
KsCreateOperation ==
    /\ pc = "ks_createOperation"
    /\ \E ok \in Draw("ks.createOperation", BOOLEAN) :
        /\ oracle' = Answered("ks.createOperation", ok)
        /\ calls' = Append(calls, "ks.createOperation")
        /\ IF ok THEN pc' = "ks_finish" /\ retval' = retval
                 ELSE Free_Return(FALSE)
    /\ UNCHANGED <<env, password_token, application_id, pwd, wd, weaver_key,
                   gkResponse, spblob_data, keystore_result, secret, weaver_key_size>>

\* lines 572-586: finish, which returns the inner envelope, copied into a
\* buffer from malloc
KsFinish ==
    /\ pc = "ks_finish"
    /\ \E r \in Draw("ks.finish", FinishAnswers) :
        /\ oracle' = Answered("ks.finish", r)
        /\ calls' = Append(calls, "ks.finish")
        /\ IF r.ok
           THEN /\ keystore_result' = [size |-> r.size, authentic |-> r.authentic]
                /\ heap' = heap \cup {"keystore_result"}
                /\ pc' = "inner_decrypt" /\ retval' = retval
           ELSE /\ keystore_result' = keystore_result
                /\ heap' = heap
                /\ Free_Return(FALSE)
    /\ UNCHANGED <<world, password_token, application_id, pwd, wd, weaver_key,
                   gkResponse, spblob_data, secret, weaver_key_size>>

\* the derivation as it would be if every version used the SHA-512 hash
DiskDecryptionSecretKey_AlwaysSha512(version, app, result) ==
    LET personalized_application_id == PersonalizedHashBinary("application-id", app)
        cipher_size == result.size - 12
        secret_key_real_size == cipher_size - 16
        secret_key == <<"aes-256-gcm-decrypt", personalized_application_id,
                        secret_key_real_size>>
    IN  IF MallocFails(cipher_size) THEN <<>>
        ELSE PersonalizedHash("fbe-key", secret_key)

\* lines 588-630: the disk decryption key from the inner envelope.  The
\* plaintext of EVP_DecryptUpdate is used whatever EVP_DecryptFinal_ex
\* says about the tag; its last 16 bytes are cut off.
DiskDecryptionSecretKey(version, app, result) ==
    LET personalized_application_id == PersonalizedHashBinary("application-id", app)
        cipher_size == result.size - 12
        secret_key_real_size == cipher_size - 16
        secret_key == <<"aes-256-gcm-decrypt", personalized_application_id,
                        secret_key_real_size>>
    IN  IF MallocFails(cipher_size) THEN <<>>
        ELSE IF version = SYNTHETIC_PASSWORD_VERSION_V3
        THEN PersonalizedHashSP800("fbe-key", "fbe-key-context", secret_key)
        ELSE PersonalizedHash("fbe-key", secret_key)

\* lines 593-617 and 629: personalized_application_id and keystore_result
\* are freed at lines 616-617 and secret_key at line 629; the return at line
\* 609 for a failed malloc of secret_key frees neither of the first two
BuffersAfterInnerDecrypt(live, result) ==
    IF MallocFails(result.size - 12)
    THEN live \cup {"personalized_application_id"}
    ELSE live \ {"keystore_result"}

\* lines 588-630 and 922-925.  The tag handed to EVP_CTRL_GCM_SET_TAG is an
\* array nothing was written to, and what EVP_DecryptFinal_ex returns for it
\* (final) is not looked at.
InnerDecrypt ==
    /\ pc = "inner_decrypt"
    /\ \E final \in Draw("EVP_DecryptFinal_ex", BOOLEAN) :
        oracle' = Answered("EVP_DecryptFinal_ex", final)
    /\ secret' = DiskDecryptionSecretKey(spblob_data[1], application_id, keystore_result)
    /\ heap' = BuffersAfterInnerDecrypt(heap, keystore_result)
    /\ IF Len(secret') = 0 THEN Free_Return(FALSE)
                           ELSE pc' = "unlock_ce" /\ retval' = retval
    /\ UNCHANGED <<world, calls, password_token, application_id, pwd, wd,
                   weaver_key, gkResponse, spblob_data, keystore_result, weaver_key_size>>

(***************************************************************************)
(* Decrypt_CE_storage                                                      *)
(***************************************************************************)
\* Decrypt_CE_storage as it would be without the return at line 674
UnlockCE_NoReturn ==
    /\ pc = "unlock_ce"
    /\ \E ok \in Draw("fscrypt_unlock_ce_storage", BOOLEAN) :
        /\ oracle' = Answered("fscrypt_unlock_ce_storage", ok)
        /\ calls' = Append(calls, "fscrypt_unlock_ce_storage")
        /\ pc' = "prepare_user_storage" /\ retval' = retval
    /\ UNCHANGED <<env, password_token, application_id, pwd, wd, weaver_key,
                   gkResponse, spblob_data, keystore_result, secret, weaver_key_size>>

\* lines 672-675 and 927-929
UnlockCE ==
    /\ pc = "unlock_ce"
    /\ \E ok \in Draw("fscrypt_unlock_ce_storage", BOOLEAN) :
        /\ oracle' = Answered("fscrypt_unlock_ce_storage", ok)
        /\ calls' = Append(calls, "fscrypt_unlock_ce_storage")
        /\ IF ok THEN pc' = "prepare_user_storage" /\ retval' = retval
                 ELSE Free_Return(FALSE)
    /\ UNCHANGED <<env, password_token, application_id, pwd, wd, weaver_key,
                   gkResponse, spblob_data, keystore_result, secret, weaver_key_size>>

\* lines 677-682 and 927-932
PrepareUserStorage ==
    /\ pc = "prepare_user_storage"
    /\ \E ok \in Draw("fscrypt_prepare_user_storage", BOOLEAN) :
        /\ oracle' = Answered("fscrypt_prepare_user_storage", ok)
        /\ calls' = Append(calls, "fscrypt_prepare_user_storage")
        /\ Free_Return(ok)
    /\ UNCHANGED <<env, password_token, application_id, pwd, wd, weaver_key,
                   gkResponse, spblob_data, keystore_result, secret, weaver_key_size>>

Next ==
    \/ ReadPasswordData
    \/ Get_Password_Token
    \/ DefaultPassword
    \/ ChoosePath
    \/ GetWeaverData
    \/ WeaverConnect
    \/ WeaverGetKeySize
    \/ WeaverVerify
    \/ GetSecdis
    \/ GetGatekeeper
    \/ GkVerifyAidl
    \/ GkVerifyHidl
    \/ AddAuthToken
    \/ ReadSpblob
    \/ KsGetKeyEntry
    \/ KsCreateOperation
    \/ KsFinish
    \/ InnerDecrypt
    \/ UnlockCE
    \/ PrepareUserStorage

Spec == Init /\ [][Next]_vars

(***************************************************************************)
(* A second run over an environment that differs in one respect            *)
(***************************************************************************)
\* how the run ended: where, with what result, after which calls
Outcome == [pc |-> pc, retval |-> retval, calls |-> calls]

\* Once the first run has ended, the function is called again.  The services
\* answer as before (oracle); the environment differs only in the .secdis
\* file if <handle>.weaver exists, and only in the reachability of the
\* weaver service if it does not.
Rerun ==
    /\ run = 1
    /\ pc \in {"done", "crashed"}
    /\ run' = 2
    /\ prev' = Outcome
    /\ IF disk[".weaver"][0].exists
       THEN /\ \E sd \in SecdisDirs \ {disk[".secdis"]} :
                 disk' = [disk EXCEPT ![".secdis"] = sd]
            /\ weaverService' = weaverService
       ELSE /\ weaverService' = ~weaverService
            /\ disk' = disk
    /\ pc' = FreshFrame.pc
    /\ retval' = FreshFrame.retval
    /\ calls' = FreshFrame.calls
    /\ password_token' = FreshFrame.password_token
    /\ application_id' = FreshFrame.application_id
    /\ pwd' = FreshFrame.pwd
    /\ wd' = FreshFrame.wd
    /\ weaver_key' = FreshFrame.weaver_key
    /\ gkResponse' = FreshFrame.gkResponse
    /\ spblob_data' = FreshFrame.spblob_data
    /\ keystore_result' = FreshFrame.keystore_result
    /\ secret' = FreshFrame.secret
    /\ weaver_key_size' = FreshFrame.weaver_key_size
    /\ heap' = {}
    /\ UNCHANGED <<Password, oracle, user_id, fs, du, kbr, mnt, dsu>>

NextTwoRuns == Next \/ Rerun

\* the two runs are compared over .spblob files with a well-formed header
\* and over a .pwd file that is either missing or complete
InitTwoRuns ==
    /\ Init
    /\ disk[".pwd"] \in {NoFile, OnlyAt(0, File(PwdBytes(2, <<9>>, <<8>>)))}
    /\ disk[".spblob"] \in
          {NoFile,
           OnlyAt(0, File(SpblobBytes(SYNTHETIC_PASSWORD_VERSION_V2,
                                      SYNTHETIC_PASSWORD_PASSWORD_BASED))),
           OnlyAt(0, File(SpblobBytes(SYNTHETIC_PASSWORD_VERSION_V3,
                                      SYNTHETIC_PASSWORD_PASSWORD_BASED)))}

SpecTwoRuns == InitTwoRuns /\ [][NextTwoRuns]_vars

(***************************************************************************)
(* Get_Password_Type and Decrypt_User                                      *)
(***************************************************************************)
\* stored password types range over -1 and 1..MaxPasswordType
MaxPasswordType == 5
\* Decrypt_User refuses user ids above MaxUserId
MaxUserId == 9999
\* a gatekeeper retry response carries a timeout of 0 or RetryTimeout
RetryTimeout == 30000

\* password_data_struct pwd of Get_Password_Type: declared, nothing assigned
UninitPwd == [password_type |-> Uninit, scryptN |-> Uninit, scryptR |-> Uninit,
              scryptP |-> Uninit, salt_len |-> Uninit, salt |-> Uninit,
              handle_len |-> Uninit, password_handle |-> Uninit]

\* the return value as it would be if type 4 had a value of its own
PasswordTypeCode_Distinct(password_type) ==
    IF password_type = 2 THEN 1
    ELSE IF password_type = 4 THEN 4
    ELSE IF password_type = 1 THEN 2
    ELSE IF password_type = 3 THEN 3
    ELSE 0

\* lines 952-966: the value returned for a stored password type
PasswordTypeCode(password_type) ==
    IF password_type = 2 THEN 1
    ELSE IF password_type = 4 THEN 1
    ELSE IF password_type = 1 THEN 2
    ELSE IF password_type = 3 THEN 3
    ELSE 0

\* st.st_size > 0 of a legacy gatekeeper key file
NonEmptyFile(f) == f.exists /\ Len(f.data) > 0

\* Get_Password_Type(user_id, filename): [type, filename]
Get_Password_Type(f, d, oob) ==
    IF f.spblob_dir
    THEN LET r == Get_Password_Data(d, UninitPwd, oob)
         IN  [type |-> IF r.ok THEN PasswordTypeCode(r.pwd.password_type) ELSE 0,
              filename |-> ""]
    ELSE IF NonEmptyFile(f.password_key)
    THEN [type |-> 1, filename |-> "gatekeeper.password.key"]
    ELSE IF NonEmptyFile(f.pattern_key)
    THEN [type |-> 2, filename |-> "gatekeeper.pattern.key"]
    ELSE [type |-> 0, filename |-> ""]

\* the legacy key file a file name stands for
KeyFile(f, filename) ==
    IF filename = "gatekeeper.password.key" THEN f.password_key
    ELSE IF filename = "gatekeeper.pattern.key" THEN f.pattern_key
    ELSE Absent

\* HashPassword(Password): hex SHA-512 of the padded label and the password
HashPassword(passwd) == <<"hex-sha512", "Android FBE credential hash", passwd>>

\* lines 996-1016: user id check, Get_Password_Type, and the choice between
\* the direct unlock with "!", the synthetic password and the legacy method
DU_PasswordType ==
    /\ pc = "Decrypt_User"
    /\ IF user_id > MaxUserId
       THEN /\ pc' = "done" /\ retval' = FALSE
            /\ UNCHANGED <<calls, du>>
       ELSE \E oob \in 0..MaxGarbage :
            LET t == Get_Password_Type(fs, disk, oob)
                Default_Password == Password = DefaultCredential
            IN  /\ calls' = IF fs.spblob_dir
                            THEN Append(calls, "Get_Password_Type.fs.read.pwd")
                            ELSE calls
                /\ du' = [du EXCEPT !.type = t.type, !.filename = t.filename,
                                    !.secret = IF Default_Password
                                               THEN DefaultCredential ELSE <<>>,
                                    !.fallback = Default_Password]
                /\ retval' = FALSE
                /\ pc' = IF t.type = 0 /\ ~Default_Password THEN "done"
                         ELSE IF Default_Password THEN "Decrypt_CE_storage"
                         ELSE IF fs.spblob_dir0 THEN "start"
                         ELSE "legacy"
    /\ UNCHANGED <<Password, disk, weaverService, run, prev, user_id, fs, oracle,
                   heap, kbr, mnt, dsu,
                   password_token, application_id, pwd, wd, weaver_key, gkResponse,
                   spblob_data, keystore_result, secret, weaver_key_size>>

\* lines 1018-1032: the legacy key file and the HIDL gatekeeper
DU_Legacy ==
    /\ pc = "legacy"
    /\ IF ~KeyFile(fs, du.filename).exists \/ ~KeyFile(fs, du.filename).readable
       THEN /\ pc' = "done" /\ retval' = FALSE
            /\ UNCHANGED <<calls, oracle>>
       ELSE \E up \in Draw("Decrypt_User.gk.getService", BOOLEAN) :
            /\ oracle' = Answered("Decrypt_User.gk.getService", up)
            /\ calls' = Append(calls, "Decrypt_User.gk.getService")
            /\ retval' = FALSE
            /\ pc' = IF up THEN "legacy_verify" ELSE "done"
    /\ UNCHANGED <<env, password_token, application_id, pwd, wd, weaver_key,
                   gkResponse, spblob_data, keystore_result, secret, weaver_key_size>>

\* lines 1040-1073: verify through the HIDL gatekeeper.  The callback writes
\* auth_token and auth_token_len only for a status of STATUS_OK or above; the
\* hex loop of lines 1066-1071 reads both whatever the status was, and ret
\* is not looked at.
DU_LegacyVerify ==
    /\ pc = "legacy_verify"
    /\ \E rsp \in Draw("Decrypt_User.gk.verify", HidlVerifyAnswers) :
       \E timeout \in {0, RetryTimeout} : \E garbage \in 0..MaxGarbage :
       \E fault \in BOOLEAN :
        /\ oracle' = Answered("Decrypt_User.gk.verify", rsp)
        /\ calls' = Append(calls, "Decrypt_User.gk.verify")
        /\ retval' = FALSE
        /\ IF ~rsp.isOk
           THEN pc' = "done" /\ du' = du
           ELSE IF rsp.code >= STATUS_OK
           THEN /\ du' = [du EXCEPT !.ret = 0, !.auth_token = rsp.data,
                                    !.auth_token_len = Len(rsp.data),
                                    !.secret = HashPassword(Password)]
                /\ pc' = "Decrypt_CE_storage"
           ELSE /\ du' = [du EXCEPT
                             !.ret = IF rsp.code = ERROR_RETRY_TIMEOUT /\ timeout > 0
                                     THEN timeout ELSE rsp.code,
                             !.auth_token_len = garbage,
                             !.secret = HashPassword(Password)]
                /\ pc' = IF garbage > 0 /\ fault THEN "crashed"
                         ELSE "Decrypt_CE_storage"
    /\ UNCHANGED <<Password, disk, weaverService, run, prev, user_id, fs,
                   heap, kbr, mnt, dsu,
                   password_token, application_id, pwd, wd, weaver_key, gkResponse,
                   spblob_data, keystore_result, secret, weaver_key_size>>

\* lines 672-675 as called from lines 1008 and 1074; after a failure with
\* "!" Decrypt_User goes on to Decrypt_User_Synth_Pass (line 1009)
DU_UnlockCE ==
    /\ pc = "Decrypt_CE_storage"
    /\ \E ok \in Draw("Decrypt_User.fscrypt_unlock_ce_storage", BOOLEAN) :
        /\ oracle' = Answered("Decrypt_User.fscrypt_unlock_ce_storage", ok)
        /\ calls' = Append(calls, "Decrypt_User.fscrypt_unlock_ce_storage")
        /\ retval' = FALSE
        /\ pc' = IF ok THEN "Decrypt_CE_storage.prepare"
                 ELSE IF du.fallback THEN "start" ELSE "done"
    /\ UNCHANGED <<env, password_token, application_id, pwd, wd, weaver_key,
                   gkResponse, spblob_data, keystore_result, secret, weaver_key_size>>

\* the direct attempt as it would be without the return at line 1011
DU_PrepareUserStorage_NoReturn ==
    /\ pc = "Decrypt_CE_storage.prepare"
    /\ \E ok \in Draw("Decrypt_User.fscrypt_prepare_user_storage", BOOLEAN) :
        /\ oracle' = Answered("Decrypt_User.fscrypt_prepare_user_storage", ok)
        /\ calls' = Append(calls, "Decrypt_User.fscrypt_prepare_user_storage")
        /\ retval' = ok
        /\ pc' = IF du.fallback THEN "start" ELSE "done"
    /\ UNCHANGED <<env, password_token, application_id, pwd, wd, weaver_key,
                   gkResponse, spblob_data, keystore_result, secret, weaver_key_size>>

\* lines 677-682 as called from lines 1008 and 1074
DU_PrepareUserStorage ==
    /\ pc = "Decrypt_CE_storage.prepare"
    /\ \E ok \in Draw("Decrypt_User.fscrypt_prepare_user_storage", BOOLEAN) :
        /\ oracle' = Answered("Decrypt_User.fscrypt_prepare_user_storage", ok)
        /\ calls' = Append(calls, "Decrypt_User.fscrypt_prepare_user_storage")
        /\ retval' = ok
        /\ pc' = IF ok THEN "done"
                 ELSE IF du.fallback THEN "start" ELSE "done"
    /\ UNCHANGED <<env, password_token, application_id, pwd, wd, weaver_key,
                   gkResponse, spblob_data, keystore_result, secret, weaver_key_size>>

\* the users Decrypt_User is called for
UserIds == {0, 10, MaxUserId + 1}

\* .pwd files of every stored type, one without salt, and none
UserPwdDirs == {NoFile, OnlyAt(0, File(PwdBytes(2, <<>>, <<8>>)))}
               \cup {OnlyAt(0, File(PwdBytes(t, <<9>>, <<8>>))) :
                        t \in {-1} \cup 1..MaxPasswordType}

UserDisks == {[s \in Suffixes |-> CASE s = ".pwd" -> p [] s = ".weaver" -> w
                                    [] s = ".secdis" -> sd [] OTHER -> sb] :
                 p \in UserPwdDirs,
                 w \in {NoFile, OnlyAt(0, File(WeaverBytes))},
                 sd \in {NoFile, OnlyAt(0, File(<<1>>))},
                 sb \in {NoFile,
                         OnlyAt(0, File(SpblobBytes(SYNTHETIC_PASSWORD_VERSION_V2, 0))),
                         OnlyAt(0, File(SpblobBytes(SYNTHETIC_PASSWORD_VERSION_V3, 0)))}}

EmptyDisk == [s \in Suffixes |-> NoFile]

\* legacy gatekeeper key files: none, empty, or holding a password handle
KeyFiles == {Absent, File(<<>>), File(<<8>>)}

\* a device either has the spblob directory of the user and no legacy key
\* file, or no such directory, nothing in it and perhaps legacy key files
InitUser ==
    /\ Password \in Credentials
    /\ user_id \in UserIds
    /\ fs \in [spblob_dir : BOOLEAN, spblob_dir0 : BOOLEAN,
                password_key : KeyFiles, pattern_key : KeyFiles]
    /\ user_id = 0 => fs.spblob_dir0 = fs.spblob_dir
    /\ fs.spblob_dir => (fs.password_key = Absent /\ fs.pattern_key = Absent)
    /\ disk \in UserDisks \cup {EmptyDisk}
    /\ ~fs.spblob_dir => disk = EmptyDisk
    /\ user_id > MaxUserId => (disk = EmptyDisk /\ fs = SyntheticFs)
    /\ weaverService \in BOOLEAN
    /\ ~Is_Weaver(disk) => ~weaverService
    /\ oracle = <<>>
    /\ run = 1
    /\ prev = <<>>
    /\ du = IdleUser
    /\ heap = {}
    /\ kbr = IdleKbr
    /\ mnt = IdleMnt
    /\ dsu = IdleDsu
    /\ pc = "Decrypt_User"
    /\ retval = FreshFrame.retval
    /\ calls = FreshFrame.calls
    /\ password_token = FreshFrame.password_token
    /\ application_id = FreshFrame.application_id
    /\ pwd = FreshFrame.pwd
    /\ wd = FreshFrame.wd
    /\ weaver_key = FreshFrame.weaver_key
    /\ gkResponse = FreshFrame.gkResponse
    /\ spblob_data = FreshFrame.spblob_data
    /\ keystore_result = FreshFrame.keystore_result
    /\ secret = FreshFrame.secret
    /\ weaver_key_size = FreshFrame.weaver_key_size

NextUser ==
    \/ DU_PasswordType
    \/ DU_Legacy
    \/ DU_LegacyVerify
    \/ DU_UnlockCE
    \/ DU_PrepareUserStorage
    \/ Next

SpecUser == InitUser /\ [][NextUser]_vars

(***************************************************************************)
(* getKeystoreBinderRetry                                                  *)
(***************************************************************************)
\* line 433: int retry_count = 50
KEYSTORE_RETRY_COUNT == 50

\* the keystore binder once the service manager knows the service
KeystoreBinder == <<"binder", "android.security.keystore">>
\* lines 425-428: what getKeystoreBinder can return
BinderAnswers == {NULL, KeystoreBinder}

InitKeystoreRetry ==
    /\ Password = "1234"
    /\ disk = EmptyDisk
    /\ weaverService = FALSE
    /\ oracle = <<>>
    /\ run = 1
    /\ prev = <<>>
    /\ user_id = 0
    /\ fs = SyntheticFs
    /\ du = IdleUser
    /\ heap = {}
    /\ kbr = IdleKbr
    /\ mnt = IdleMnt
    /\ dsu = IdleDsu
    /\ pc = "getKeystoreBinderRetry"
    /\ retval = FreshFrame.retval
    /\ calls = FreshFrame.calls
    /\ password_token = FreshFrame.password_token
    /\ application_id = FreshFrame.application_id
    /\ pwd = FreshFrame.pwd
    /\ wd = FreshFrame.wd
    /\ weaver_key = FreshFrame.weaver_key
    /\ gkResponse = FreshFrame.gkResponse
    /\ spblob_data = FreshFrame.spblob_data
    /\ keystore_result = FreshFrame.keystore_result
    /\ secret = FreshFrame.secret
    /\ weaver_key_size = FreshFrame.weaver_key_size

\* what the retry steps leave alone
KbrFrame ==
    UNCHANGED <<Password, disk, weaverService, oracle, run, prev, user_id, fs, du, heap,
                mnt, dsu, retval, password_token, application_id, pwd, wd, weaver_key,
                gkResponse, spblob_data, keystore_result, secret, weaver_key_size>>

\* the loop test as it would be if only the count were looked at
KeepWaiting_CountOnly(binder, retry_count) == retry_count # 0

\* line 435: while (binder == NULL && retry_count)
KeepWaiting(binder, retry_count) == binder = NULL /\ retry_count # 0

\* lines 431-434: start the keystore, set the count, look the service up
KBR_Start ==
    /\ pc = "getKeystoreBinderRetry"
    /\ \E b \in BinderAnswers :
        kbr' = [kbr EXCEPT !.retry_count = KEYSTORE_RETRY_COUNT, !.binder = b,
                           !.answers = Append(@, b)]
    /\ calls' = Append(calls, "property_set.ctl.start.keystore")
    /\ pc' = "getKeystoreBinderRetry.while"
    /\ KbrFrame

\* lines 435-437: the loop is entered, the count printed and decremented,
\* and one second slept
KBR_Wait ==
    /\ pc = "getKeystoreBinderRetry.while"
    /\ KeepWaiting(kbr.binder, kbr.retry_count)
    /\ kbr' = [kbr EXCEPT !.retry_count = @ - 1, !.waits = @ + 1]
    /\ pc' = "getKeystoreBinderRetry.lookup"
    /\ UNCHANGED calls
    /\ KbrFrame

\* line 438: binder = getKeystoreBinder()
KBR_Lookup ==
    /\ pc = "getKeystoreBinderRetry.lookup"
    /\ \E b \in BinderAnswers :
        kbr' = [kbr EXCEPT !.binder = b, !.answers = Append(@, b)]
    /\ pc' = "getKeystoreBinderRetry.while"
    /\ UNCHANGED calls
    /\ KbrFrame

\* lines 435 and 440: the loop is left and binder returned
KBR_Return ==
    /\ pc = "getKeystoreBinderRetry.while"
    /\ ~KeepWaiting(kbr.binder, kbr.retry_count)
    /\ pc' = "getKeystoreBinderRetry.return"
    /\ UNCHANGED <<kbr, calls>>
    /\ KbrFrame

NextKeystoreRetry == KBR_Start \/ KBR_Wait \/ KBR_Lookup \/ KBR_Return

\* the function is one thread of straight-line code: a step that can be
\* taken is taken
SpecKeystoreRetry ==
    InitKeystoreRetry /\ [][NextKeystoreRetry]_vars /\ WF_vars(NextKeystoreRetry)

(***************************************************************************)
(* fscrypt_mount_metadata_encrypted                                        *)
(***************************************************************************)
\* options.version as ParseOptions leaves it ranges over 1..MaxOptionsVersion
MaxOptionsVersion == 3

\* A string of the fstab is the sequence of its words, ":" being a word of
\* its own; the empty string is <<>>.
\* android::base::Split(s, ":"): the parts between the colons, one part
\* (the empty one) for the empty string
RECURSIVE Split(_)
Split(s) ==
    IF s = <<>> THEN << <<>> >>
    ELSE IF Head(s) = ":" THEN << <<>> >> \o Split(Tail(s))
    ELSE LET rest == Split(Tail(s))
         IN  << <<Head(s)>> \o rest[1] >> \o Tail(rest)

\* CryptoType values: the two of supported_crypto_types, the legacy one of
\* lines 155-156 and the invalid one, whose kernel name is a null pointer
aes_256_xts ==
    [config_name |-> <<"aes-256-xts">>, kernel_name |-> <<"aes-xts-plain64">>, keysize |-> 64]
adiantum ==
    [config_name |-> <<"adiantum">>, kernel_name |-> <<"xchacha12,aes-adiantum-plain64">>,
     keysize |-> 32]
legacy_aes_256_xts ==
    [config_name |-> <<"aes-256-xts">>, kernel_name |-> <<"AES-256-XTS">>, keysize |-> 64]
invalid_crypto_type == [config_name |-> NULL, kernel_name |-> NULL, keysize |-> 0]
supported_crypto_types == <<aes_256_xts, adiantum>>

\* struct CryptoOptions with its default member initialisers
CryptoOptions ==
    [cipher |-> invalid_crypto_type, use_legacy_options_format |-> FALSE,
     set_dun |-> TRUE, use_hw_wrapped_key |-> FALSE]

\* lines 293-301
lookup_cipher(cipher_name) ==
    IF cipher_name = <<>> THEN supported_crypto_types[1]
    ELSE IF \E i \in 1..Len(supported_crypto_types) :
               cipher_name = supported_crypto_types[i].config_name
    THEN supported_crypto_types[
             CHOOSE i \in 1..Len(supported_crypto_types) :
                 /\ cipher_name = supported_crypto_types[i].config_name
                 /\ \A j \in 1..(i - 1) :
                       cipher_name # supported_crypto_types[j].config_name]
    ELSE invalid_crypto_type

\* parse_options as it would be if an unknown flag were skipped
parse_options_FlagSkipped(options_string, options) ==
    LET parts == Split(options_string)
        withCipher == [options EXCEPT !.cipher = lookup_cipher(parts[1])]
    IN  IF Len(parts) < 1 \/ Len(parts) > 2 THEN [ok |-> FALSE, options |-> options]
        ELSE IF withCipher.cipher.kernel_name = NULL
        THEN [ok |-> FALSE, options |-> withCipher]
        ELSE IF Len(parts) = 2 /\ parts[2] = <<"wrappedkey_v0">>
        THEN [ok |-> TRUE, options |-> [withCipher EXCEPT !.use_hw_wrapped_key = TRUE]]
        ELSE [ok |-> TRUE, options |-> withCipher]

\* lines 303-325: [ok, options]
parse_options(options_string, options) ==
    LET parts == Split(options_string)
        withCipher == [options EXCEPT !.cipher = lookup_cipher(parts[1])]
    IN  IF Len(parts) < 1 \/ Len(parts) > 2 THEN [ok |-> FALSE, options |-> options]
        ELSE IF withCipher.cipher.kernel_name = NULL
        THEN [ok |-> FALSE, options |-> withCipher]
        ELSE IF Len(parts) = 2
        THEN IF parts[2] = <<"wrappedkey_v0">>
             THEN [ok |-> TRUE,
                   options |-> [withCipher EXCEPT !.use_hw_wrapped_key = TRUE]]
             ELSE [ok |-> FALSE, options |-> withCipher]
        ELSE [ok |-> TRUE, options |-> withCipher]

\* lines 178-197: [ok, mounted] for what the two setexeccon calls and
\* fs_mgr_do_mount return; nothing is mounted when the first setexeccon fails
mount_via_fs_mgr(setexeccon_rc, mount_rc, clear_rc) ==
    IF setexeccon_rc # 0 THEN [ok |-> FALSE, mounted |-> FALSE]
    ELSE IF clear_rc # 0 THEN [ok |-> FALSE, mounted |-> mount_rc = 0]
    ELSE IF mount_rc # 0 THEN [ok |-> FALSE, mounted |-> FALSE]
    ELSE [ok |-> TRUE, mounted |-> TRUE]

\* return codes of setexeccon and fs_mgr_do_mount
ReturnCodes == {0, -1}

\* metadata_encryption option strings of the fstab entry
MetadataOptionStrings ==
    {<<>>, <<"aes-256-xts">>, <<"adiantum">>, <<"adiantum", ":", "wrappedkey_v0">>,
     <<":", "wrappedkey_v0">>, <<"aes-256-gcm">>, <<"adiantum", ":", "wrappedkey_v1">>,
     <<"adiantum", ":", "wrappedkey_v0", ":", "x">>}

\* the arguments of the call, the properties and the fstab it finds
MountInputs ==
    {m \in [encrypted_state : {"", "encrypted", "unencrypted"},
            fstab : {"unreadable", "no entry", "entry"},
            options_format_version : 1..MaxOptionsVersion,
            metadata_encryption_options : MetadataOptionStrings,
            checkpoint_blk : BOOLEAN, set_dun : BOOLEAN, zoned_device : BOOLEAN,
            needs_encrypt : BOOLEAN, should_format : BOOLEAN,
            fs_type : {"ext4", "f2fs", "vfat"}] :
        /\ m.should_format => m.needs_encrypt
        /\ ~m.should_format => m.fs_type = "ext4"}

\* results of the call so far
MountFresh == [options |-> CryptoOptions, mount_ok |-> FALSE, mounted |-> FALSE]

InitMount ==
    /\ Password = "1234"
    /\ disk = EmptyDisk
    /\ weaverService = FALSE
    /\ oracle = <<>>
    /\ run = 1
    /\ prev = <<>>
    /\ user_id = 0
    /\ fs = SyntheticFs
    /\ du = IdleUser
    /\ heap = {}
    /\ kbr = IdleKbr
    /\ mnt \in {[in |-> m, out |-> MountFresh] : m \in MountInputs}
    /\ dsu = IdleDsu
    /\ pc = "fscrypt_mount_metadata_encrypted"
    /\ retval = FreshFrame.retval
    /\ calls = FreshFrame.calls
    /\ password_token = FreshFrame.password_token
    /\ application_id = FreshFrame.application_id
    /\ pwd = FreshFrame.pwd
    /\ wd = FreshFrame.wd
    /\ weaver_key = FreshFrame.weaver_key
    /\ gkResponse = FreshFrame.gkResponse
    /\ spblob_data = FreshFrame.spblob_data
    /\ keystore_result = FreshFrame.keystore_result
    /\ secret = FreshFrame.secret
    /\ weaver_key_size = FreshFrame.weaver_key_size

\* what the mount steps leave alone
MountFrame ==
    UNCHANGED <<Password, disk, weaverService, oracle, run, prev, user_id, fs, du, heap,
                kbr, dsu, password_token, application_id, pwd, wd, weaver_key,
                gkResponse, spblob_data, keystore_result, secret, weaver_key_size>>

MountReturn(rv) == pc' = "fscrypt_mount_metadata_encrypted.return" /\ retval' = rv

\* lines 371-392: the CryptoOptions for the options format version, [ok,
\* options]; wrapped is what is_metadata_wrapped_key_supported() answers
MountOptions(in, wrapped) ==
    IF in.options_format_version = 1
    THEN LET legacy == [CryptoOptions EXCEPT !.cipher = legacy_aes_256_xts,
                                             !.use_legacy_options_format = TRUE,
                                             !.use_hw_wrapped_key = wrapped,
                                             !.set_dun = in.set_dun]
         IN  IF in.metadata_encryption_options # <<>>
             THEN [ok |-> FALSE, options |-> CryptoOptions]
             ELSE IF ~legacy.set_dun /\ in.checkpoint_blk
             THEN [ok |-> FALSE, options |-> legacy]
             ELSE [ok |-> TRUE, options |-> legacy]
    ELSE IF in.options_format_version = 2
    THEN parse_options(in.metadata_encryption_options, CryptoOptions)
    ELSE [ok |-> FALSE, options |-> CryptoOptions]

\* lines 334-392: the starting state, the fstab entry and the options
MountValidate ==
    /\ pc = "fscrypt_mount_metadata_encrypted"
    /\ \E wrapped \in BOOLEAN :
        LET r == MountOptions(mnt.in, wrapped)
        IN  IF \/ mnt.in.encrypted_state \notin {"", "encrypted"}
               \/ mnt.in.fstab # "entry"
            THEN MountReturn(FALSE) /\ mnt' = mnt
            ELSE /\ mnt' = [mnt EXCEPT !.out.options = r.options]
                 /\ IF r.ok THEN pc' = "read_key" /\ retval' = retval
                            ELSE MountReturn(FALSE)
    /\ UNCHANGED calls
    /\ MountFrame

\* lines 394-403: the key of the userdata device is read or generated
MountReadKey ==
    /\ pc = "read_key"
    /\ calls' = Append(calls, "read_key")
    /\ \E ok \in BOOLEAN :
        IF ok THEN pc' = "create_crypto_blk_dev" /\ retval' = retval
              ELSE MountReturn(FALSE)
    /\ UNCHANGED mnt
    /\ MountFrame

\* lines 405-411: the dm-default-key device over the userdata device
MountCreateDevice ==
    /\ pc = "create_crypto_blk_dev"
    /\ calls' = Append(calls, "create_crypto_blk_dev")
    /\ \E ok \in BOOLEAN :
        IF ok THEN /\ pc' = IF mnt.in.zoned_device THEN "zoned" ELSE "needs_encrypt"
                   /\ retval' = retval
              ELSE MountReturn(FALSE)
    /\ UNCHANGED mnt
    /\ MountFrame

\* lines 413-428: key and dm-default-key device of the zoned device
MountZoned ==
    /\ pc = "zoned"
    /\ \E key_ok \in BOOLEAN : \E dev_ok \in BOOLEAN :
        IF ~key_ok
        THEN /\ calls' = Append(calls, "read_key")
             /\ MountReturn(FALSE)
        ELSE /\ calls' = calls \o <<"read_key", "create_crypto_blk_dev">>
             /\ IF dev_ok THEN pc' = "needs_encrypt" /\ retval' = retval
                          ELSE MountReturn(FALSE)
    /\ UNCHANGED mnt
    /\ MountFrame

\* lines 430-458: format the new device or encrypt the old one in place
MountEncrypt ==
    /\ pc = "needs_encrypt"
    /\ \E ok \in BOOLEAN :
        IF ~mnt.in.needs_encrypt
        THEN /\ pc' = "mount" /\ retval' = retval
             /\ UNCHANGED calls
        ELSE IF mnt.in.should_format /\ mnt.in.fs_type \notin {"ext4", "f2fs"}
        THEN MountReturn(FALSE) /\ UNCHANGED calls
        ELSE IF ~mnt.in.should_format /\ mnt.in.zoned_device
        THEN MountReturn(FALSE) /\ UNCHANGED calls
        ELSE /\ calls' = Append(calls, IF ~mnt.in.should_format THEN "encrypt_inplace"
                                       ELSE IF mnt.in.fs_type = "ext4" THEN "ext4.Format"
                                       ELSE "f2fs.Format")
             /\ IF ok THEN pc' = "mount" /\ retval' = retval
                      ELSE MountReturn(FALSE)
    /\ UNCHANGED mnt
    /\ MountFrame

\* lines 460-468: mount, set the two properties, return true.  What
\* mount_via_fs_mgr returns is not looked at.
MountFinish ==
    /\ pc = "mount"
    /\ \E setexeccon_rc \in ReturnCodes : \E mount_rc \in ReturnCodes :
       \E clear_rc \in ReturnCodes :
        LET r == mount_via_fs_mgr(setexeccon_rc, mount_rc, clear_rc)
        IN  mnt' = [mnt EXCEPT !.out.mount_ok = r.ok, !.out.mounted = r.mounted]
    /\ calls' = calls \o <<"mount_via_fs_mgr", "SetProperty.ro.crypto.fs_crypto_blkdev",
                           "SetProperty.ro.crypto.metadata.enabled">>
    /\ MountReturn(TRUE)
    /\ MountFrame

NextMount ==
    \/ MountValidate
    \/ MountReadKey
    \/ MountCreateDevice
    \/ MountZoned
    \/ MountEncrypt
    \/ MountFinish

SpecMount == InitMount /\ [][NextMount]_vars

(***************************************************************************)
(* destroy_dsu_metadata_key                                                *)
(***************************************************************************)
\* line 519: for (auto suffix : {"/key", "/tmp"})
DsuSuffixes == <<"/key", "/tmp">>

\* The DSU key directory and what is in it, the state of fstab_default
\* (already read, readable, or not readable) and the metadata_key_dir of
\* its /data entry (none, the DSU directory itself, or another one).  An
\* absent directory holds nothing.
DsuInputs ==
    {d \in [exists : BOOLEAN, fstab : {"cached", "readable", "unreadable"},
            host : {"none", "same", "other"}, present : SUBSET {"/key", "/tmp"}] :
        ~d.exists => d.present = {}}

\* ok of line 518, the position in the loop, the keys destroyKey failed on
DsuFresh == [ok |-> TRUE, i |-> 1, failed |-> {}]

InitDestroyDsu ==
    /\ Password = "1234"
    /\ disk = EmptyDisk
    /\ weaverService = FALSE
    /\ oracle = <<>>
    /\ run = 1
    /\ prev = <<>>
    /\ user_id = 0
    /\ fs = SyntheticFs
    /\ du = IdleUser
    /\ heap = {}
    /\ kbr = IdleKbr
    /\ mnt = IdleMnt
    /\ dsu \in {[in |-> d, out |-> DsuFresh] : d \in DsuInputs}
    /\ pc = "destroy_dsu_metadata_key"
    /\ retval = FreshFrame.retval
    /\ calls = FreshFrame.calls
    /\ password_token = FreshFrame.password_token
    /\ application_id = FreshFrame.application_id
    /\ pwd = FreshFrame.pwd
    /\ wd = FreshFrame.wd
    /\ weaver_key = FreshFrame.weaver_key
    /\ gkResponse = FreshFrame.gkResponse
    /\ spblob_data = FreshFrame.spblob_data
    /\ keystore_result = FreshFrame.keystore_result
    /\ secret = FreshFrame.secret
    /\ weaver_key_size = FreshFrame.weaver_key_size

\* what the steps of destroy_dsu_metadata_key leave alone
DsuFrame ==
    UNCHANGED <<Password, disk, weaverService, oracle, run, prev, user_id, fs, du, heap,
                kbr, mnt, password_token, application_id, pwd, wd, weaver_key,
                gkResponse, spblob_data, keystore_result, secret, weaver_key_size>>

DsuReturn(rv) == pc' = "destroy_dsu_metadata_key.return" /\ retval' = rv

\* the checks as they would be without the comparison of lines 511-516
DsuCheck_NoHostTest ==
    /\ pc = "destroy_dsu_metadata_key"
    /\ IF ~dsu.in.exists THEN DsuReturn(TRUE)
       ELSE IF dsu.in.fstab = "unreadable" THEN DsuReturn(FALSE)
       ELSE pc' = "destroyKey" /\ retval' = retval
    /\ UNCHANGED <<dsu, calls>>
    /\ DsuFrame

\* lines 496-516: nothing to do without the directory; the default fstab
\* is read if it was not; a directory that is the host's is refused
DsuCheck ==
    /\ pc = "destroy_dsu_metadata_key"
    /\ IF ~dsu.in.exists THEN DsuReturn(TRUE)
       ELSE IF dsu.in.fstab = "unreadable" THEN DsuReturn(FALSE)
       ELSE IF dsu.in.host = "same" THEN DsuReturn(FALSE)
       ELSE pc' = "destroyKey" /\ retval' = retval
    /\ UNCHANGED <<dsu, calls>>
    /\ DsuFrame

\* lines 519-528: one pass of the loop
DsuDestroyKey ==
    /\ pc = "destroyKey"
    /\ dsu.out.i <= Len(DsuSuffixes)
    /\ LET suffix == DsuSuffixes[dsu.out.i]
       IN  IF suffix \in dsu.in.present
           THEN /\ calls' = Append(calls, "destroyKey" \o suffix)
                /\ \E destroyed \in BOOLEAN :
                     dsu' = [dsu EXCEPT !.out.i = @ + 1,
                                        !.out.ok = IF destroyed THEN @ ELSE FALSE,
                                        !.out.failed = IF destroyed THEN @
                                                       ELSE @ \cup {suffix}]
           ELSE /\ calls' = calls
                /\ dsu' = [dsu EXCEPT !.out.i = @ + 1]
    /\ UNCHANGED <<pc, retval>>
    /\ DsuFrame

\* lines 529-535: after the loop
DsuRemoveDir ==
    /\ pc = "destroyKey"
    /\ dsu.out.i > Len(DsuSuffixes)
    /\ IF ~dsu.out.ok
       THEN DsuReturn(FALSE) /\ UNCHANGED calls
       ELSE /\ calls' = Append(calls, "DeleteDirContentsAndDir")
            /\ \E removed \in BOOLEAN : DsuReturn(removed)
    /\ UNCHANGED dsu
    /\ DsuFrame

NextDestroyDsu == DsuCheck \/ DsuDestroyKey \/ DsuRemoveDir

SpecDestroyDsu == InitDestroyDsu /\ [][NextDestroyDsu]_vars

(***************************************************************************)
(* Get_Password_Data over short and inconsistent .pwd files                *)
(***************************************************************************)
\* declared salt lengths range over -1..MaxDeclared, handle lengths over
\* -1..MaxDeclared - 1
MaxDeclared == 3

\* a .pwd file whose length fields need not match what follows them
PwdRaw(type, salt_len, salt, handle_len, handle) ==
    BE32(type) \o <<4, 3, 1>> \o BE32(salt_len) \o salt \o BE32(handle_len) \o handle

Prefixes(bytes) == {SubSeq(bytes, 1, n) : n \in 0..Len(bytes)}

PwdContents ==
    Prefixes(PwdBytes(2, <<9>>, <<8>>)) \cup Prefixes(PwdBytes(2, <<9, 9>>, <<>>))
    \cup {PwdRaw(2, sl, <<9>>, hl, <<8>>) :
             sl \in -1..MaxDeclared, hl \in -1..(MaxDeclared - 1)}

InitGetPasswordData ==
    /\ Password = "1234"
    /\ disk \in {[s \in Suffixes |-> IF s = ".pwd" THEN OnlyAt(0, File(c)) ELSE NoFile] :
                    c \in PwdContents}
    /\ weaverService = FALSE
    /\ oracle = <<>>
    /\ run = 1
    /\ prev = <<>>
    /\ user_id = 0
    /\ fs = SyntheticFs
    /\ du = IdleUser
    /\ heap = {}
    /\ kbr = IdleKbr
    /\ mnt = IdleMnt
    /\ dsu = IdleDsu
    /\ pc = "Get_Password_Data"
    /\ retval = FreshFrame.retval
    /\ calls = FreshFrame.calls
    /\ password_token = FreshFrame.password_token
    /\ application_id = FreshFrame.application_id
    /\ pwd = FreshFrame.pwd
    /\ wd = FreshFrame.wd
    /\ weaver_key = FreshFrame.weaver_key
    /\ gkResponse = FreshFrame.gkResponse
    /\ spblob_data = FreshFrame.spblob_data
    /\ keystore_result = FreshFrame.keystore_result
    /\ secret = FreshFrame.secret
    /\ weaver_key_size = FreshFrame.weaver_key_size

\* line 714: Get_Password_Data(spblob_path, handle_str, &pwd) and its return
\* value
CallGetPasswordData ==
    /\ pc = "Get_Password_Data"
    /\ \E oob \in 0..MaxGarbage :
        /\ pwd' = Get_Password_Data(disk, pwd, oob).pwd
        /\ retval' = Get_Password_Data(disk, pwd, oob).ok
    /\ calls' = Append(calls, "fs.read.pwd")
    /\ pc' = "Get_Password_Data.return"
    /\ UNCHANGED <<env, oracle, password_token, application_id, wd, weaver_key,
                   gkResponse, spblob_data, keystore_result, secret, weaver_key_size>>

SpecGetPasswordData == InitGetPasswordData /\ [][CallGetPasswordData]_vars

(***************************************************************************)
(* Get_Spblob_Data over every small directory                              *)
(***************************************************************************)
\* what a candidate name can be: no file, a file that cannot be read, or a
\* .spblob of one of the unwrapped versions
BlobFiles == {Absent, Unreadable}
             \cup {File(SpblobBytes(v, SYNTHETIC_PASSWORD_PASSWORD_BASED)) :
                      v \in SYNTHETIC_PASSWORD_VERSION_V2..MaxVersion}

InitGetSpblobData ==
    /\ Password = DefaultCredential
    /\ disk \in {[s \in Suffixes |-> IF s = ".spblob" THEN d ELSE NoFile] :
                    d \in [Pads -> BlobFiles]}
    /\ weaverService = FALSE
    /\ oracle = <<>>
    /\ run = 1
    /\ prev = <<>>
    /\ user_id = 0
    /\ fs = SyntheticFs
    /\ du = IdleUser
    /\ heap = {}
    /\ kbr = IdleKbr
    /\ mnt = IdleMnt
    /\ dsu = IdleDsu
    /\ pc = "Get_Spblob_Data"
    /\ retval = FreshFrame.retval
    /\ calls = FreshFrame.calls
    /\ password_token = FreshFrame.password_token
    /\ application_id = FreshFrame.application_id
    /\ pwd = FreshFrame.pwd
    /\ wd = FreshFrame.wd
    /\ weaver_key = FreshFrame.weaver_key
    /\ gkResponse = FreshFrame.gkResponse
    /\ spblob_data = FreshFrame.spblob_data
    /\ keystore_result = FreshFrame.keystore_result
    /\ secret = FreshFrame.secret
    /\ weaver_key_size = FreshFrame.weaver_key_size

\* line 496: Get_Spblob_Data(spblob_path, handle_str, ".spblob", "spblob",
\* &spblob_data) and its return value
CallGetSpblobData ==
    /\ pc = "Get_Spblob_Data"
    /\ calls' = Append(calls, "fs.read.spblob")
    /\ spblob_data' = Get_Spblob_Data(disk, ".spblob").data
    /\ retval' = Get_Spblob_Data(disk, ".spblob").found
    /\ pc' = "Get_Spblob_Data.return"
    /\ UNCHANGED <<env, oracle, password_token, application_id, pwd, wd, weaver_key,
                   gkResponse, keystore_result, secret, weaver_key_size>>

SpecGetSpblobData == InitGetSpblobData /\ [][CallGetSpblobData]_vars

(***************************************************************************)
(* Properties                                                              *)
(***************************************************************************)
Called(e) == \E i \in 1..Len(calls) : calls[i] = e
CalledAny(S) == \E i \in 1..Len(calls) : calls[i] \in S
\* every call of S made after the first call e
CalledAfter(e, S) ==
    \E i \in 1..Len(calls) : \E j \in (i + 1)..Len(calls) :
        calls[i] = e /\ calls[j] \in S

KeystoreOps == {"ks.getKeyEntry", "ks.createOperation", "ks.finish"}
WeaverRpcs == {"weaver.GetKeySize", "weaver.WeaverVerify"}
GatekeeperRpcs == {"gk.verify"}
AuthorizationRpcs == {"authz.addAuthToken", "authz.addAuthToken.null"}
Rpcs == KeystoreOps \cup WeaverRpcs \cup GatekeeperRpcs \cup AuthorizationRpcs
CeCalls == {"fscrypt_unlock_ce_storage", "fscrypt_prepare_user_storage"}
Returned == pc = "done"
Succeeded == pc = "done" /\ retval

\* the .spblob the run reads, and its first two bytes
SpblobOnDisk == Get_Spblob_Data(disk, ".spblob")
VersionByte == ByteAt(SpblobOnDisk.data, 0, 0)
TypeByte == ByteAt(SpblobOnDisk.data, 1, 0)

\* C1: on the secdis path with a non-default credential, once the gatekeeper
\* has answered verify with an error other than retry-timeout, no keystore
\* operation (getKeyEntry, createOperation, finish) is invoked and the run
\* does not end in success, whichever gatekeeper HAL answered.
C1_GatekeeperErrorStopsUnlock ==
    (Called("gk.verify") /\ gkResponse.response_code = "ERROR")
        => (~CalledAny(KeystoreOps) /\ ~Succeeded)

\* C2: once the gatekeeper has answered verify with a retry-timeout, no RPC
\* and no CE-unlock call follows the verify and the run does not end in
\* success, whichever gatekeeper HAL answered.
C2_GatekeeperRetryStopsUnlock ==
    (Called("gk.verify") /\ gkResponse.response_code = "RETRY")
        => (~CalledAfter("gk.verify", Rpcs \cup CeCalls) /\ ~Succeeded)

\* C3 as stated: with an unsupported version byte in the .spblob no RPC to
\* weaver, gatekeeper, authorization service or keystore is issued at any
\* point of the run, and the run does not succeed.
C3_NoRpcAtAll ==
    (SpblobOnDisk.found /\ VersionByte \notin {1, 2, 3})
        => (~CalledAny(Rpcs) /\ ~Succeeded)

\* C3 amended: with an unsupported version byte in the .spblob the run does
\* not succeed, no keystore RPC and no CE call is issued at any point, and
\* nothing at all is called once the .spblob has been read; weaver,
\* gatekeeper and authorization RPCs may precede the read.
C3_NoRpcAfterSpblobRead ==
    (SpblobOnDisk.found /\ VersionByte \notin {1, 2, 3})
        => /\ ~CalledAny(KeystoreOps \cup CeCalls)
           /\ ~Succeeded
           /\ Called("fs.read.spblob") =>
                 (Returned /\ calls[Len(calls)] = "fs.read.spblob")

C3_Witness ==
    /\ SpblobOnDisk.found /\ VersionByte \notin {1, 2, 3}
    /\ Called("weaver.WeaverVerify")
    /\ Called("fs.read.spblob")
    /\ Returned /\ ~retval

\* C4: a .spblob whose version byte is not 2 or 3 (legacy version 1
\* included) or whose type byte is not 0 yields the empty secret: the run
\* returns failure as soon as the .spblob is read, and neither a keystore
\* call nor fscrypt_unlock_ce_storage is invoked.
C4_BadHeaderEmptySecret ==
    (SpblobOnDisk.found /\ (VersionByte \notin {2, 3} \/ TypeByte # 0))
        => /\ secret = <<>>
           /\ ~CalledAny(KeystoreOps \cup {"ks.checkService", "fscrypt_unlock_ce_storage"})
           /\ ~Succeeded
           /\ Called("fs.read.spblob") => (Returned /\ ~retval)

C4_Witness ==
    /\ SpblobOnDisk.found /\ VersionByte = 1 /\ TypeByte = 0
    /\ Called("fs.read.spblob")
    /\ Returned /\ ~retval

\* C5: addAuthToken is never invoked after the keystore createOperation:
\* when both occur in a run, addAuthToken comes first.
C5_AuthTokenBeforeBegin ==
    ~CalledAfter("ks.createOperation", AuthorizationRpcs)

C5_Witness ==
    /\ Called("authz.addAuthToken")
    /\ CalledAfter("authz.addAuthToken", {"ks.createOperation"})

WeaverSteps == {"fs.read.weaver", "weaver.getService"} \cup WeaverRpcs
SecdisSteps == {"fs.read.secdis", "gk.getService"} \cup GatekeeperRpcs
                   \cup AuthorizationRpcs
\* the call that follows the first call e, if any
Following(e) ==
    LET i == CHOOSE k \in 1..Len(calls) : calls[k] = e
    IN  IF i < Len(calls) THEN <<calls[i + 1]>> ELSE <<>>

\* C6: past the derivation of the password token exactly one path is taken
\* and <handle>.weaver alone selects it: weaver steps occur only if the file
\* exists, the .secdis read and the gatekeeper steps only if it does not, no
\* run has steps of both, and the step after the test belongs to the path
\* the file selects.
C6_OnePathByWeaverFile ==
    /\ CalledAny(WeaverSteps) => disk[".weaver"][0].exists
    /\ CalledAny(SecdisSteps) => ~disk[".weaver"][0].exists
    /\ ~(CalledAny(WeaverSteps) /\ CalledAny(SecdisSteps))
    /\ (Called("fs.stat.weaver") /\ Following("fs.stat.weaver") # <<>>) =>
          Following("fs.stat.weaver") =
              IF disk[".weaver"][0].exists THEN <<"fs.read.weaver">>
                                           ELSE <<"fs.read.secdis">>

C6_Witness ==
    /\ Called("fs.read.secdis")
    /\ \E p \in 1..NumPadded : disk[".weaver"][p].exists
    /\ weaverService
    /\ Succeeded

\* C7: a second run whose environment differs from the first only in the
\* .secdis file while <handle>.weaver exists, or only in the reachability of
\* the weaver service while it does not, ends the same way after the same
\* sequence of external calls.
C7_PathDeterminism ==
    (run = 2 /\ pc \in {"done", "crashed"}) => Outcome = prev

C7_Witness ==
    /\ run = 2
    /\ Succeeded
    /\ disk[".weaver"][0].exists
    /\ ~disk[".secdis"][0].exists /\ ~disk[".secdis"][1].exists

\* an artifact that exists only under a zero-padded name
PaddedOnly(suffix) ==
    /\ ~disk[suffix][0].exists
    /\ \E p \in 1..NumPadded : disk[suffix][p].readable

\* C8: each of .pwd, .spblob, .weaver and .secdis is found under its
\* zero-padded names: reading an artifact that exists only as 0<handle> or
\* 00<handle> does not end the run, and a .weaver file that exists only
\* under a zero-padded name selects the weaver path.
C8_ZeroPaddedNamesTolerated ==
    /\ \A a \in {"pwd", "secdis", "spblob"} :
          (PaddedOnly("." \o a) /\ calls # <<>>
              /\ calls[Len(calls)] = "fs.read." \o a) => ~Returned
    /\ (PaddedOnly(".weaver") /\ Called("fs.stat.weaver")
           /\ Following("fs.stat.weaver") # <<>>)
          => Following("fs.stat.weaver") = <<"fs.read.weaver">>

\* C9: for the default credential all 32 bytes of password_token are
\* determined before it is used: "default-password" followed by 16 zero
\* bytes, which are also the first 32 bytes of application_id.
PaddedDefaultPassword ==
    [i \in 1..PASSWORD_TOKEN_SIZE |->
        IF i <= Len(defpassword) THEN Lit(defpassword[i]) ELSE Lit(0)]

C9_DefaultTokenZeroPadded ==
    (Password = DefaultCredential /\ pc # "start")
        => /\ password_token = PaddedDefaultPassword
           /\ (pc \notin {"is_weaver", "secdis", "weaver_data", "weaver_service",
                          "weaver_keysize", "weaver_verify"} /\ ~Returned
                  => SubSeq(application_id, 1, PASSWORD_TOKEN_SIZE)
                        = PaddedDefaultPassword)

\* C10: with the credential "!" the .pwd file is not read, scrypt is not
\* run and neither gatekeeper verify nor addAuthToken is invoked; with any
\* other credential on the secdis path the keystore is contacted only after
\* gatekeeper verify has been invoked.
C10_DefaultSkipsGatekeeper ==
    /\ Password = DefaultCredential =>
          ~CalledAny({"fs.read.pwd", "scrypt"} \cup GatekeeperRpcs \cup AuthorizationRpcs)
    /\ (Password # DefaultCredential /\ Called("fs.read.secdis")) =>
          \A j \in 1..Len(calls) :
              calls[j] \in KeystoreOps \cup {"ks.checkService"} =>
                  \E i \in 1..(j - 1) : calls[i] = "gk.verify"

C10_Witness ==
    /\ Password # DefaultCredential
    /\ Called("fs.read.secdis")
    /\ Called("ks.getKeyEntry")

\* what a call site was answered, once it has been called
AnswerOf(site) == oracle[site]
LastCall == calls[Len(calls)]

\* C11: on the weaver path, if the weaver service cannot be obtained,
\* GetKeySize fails, or WeaverVerify does not answer with an OK payload, the
\* run returns failure at that step: no keystore call and no CE-storage
\* call is made.
C11_WeaverFailureStopsUnlock ==
    LET noService == Called("weaver.getService") /\ ~weaverService
        noKeySize == Called("weaver.GetKeySize") /\ ~AnswerOf("weaver.GetKeySize").ok
        noPayload == /\ Called("weaver.WeaverVerify")
                     /\ AnswerOf("weaver.WeaverVerify").status # "OK"
    IN  /\ (noService \/ noKeySize \/ noPayload) =>
              /\ Returned /\ ~retval
              /\ ~CalledAny(KeystoreOps \cup CeCalls \cup {"ks.checkService", "fs.read.spblob"})
        /\ noService => LastCall = "weaver.getService"
        /\ noKeySize => LastCall = "weaver.GetKeySize"
        /\ noPayload => LastCall = "weaver.WeaverVerify"

C11_Witness ==
    /\ Called("weaver.WeaverVerify")
    /\ AnswerOf("weaver.WeaverVerify").status = "INCORRECT_KEY"
    /\ Returned /\ ~retval

\* the synthetic password: the output of the inner AES-256-GCM decrypt under
\* the personalized application id, of the keystore plaintext length less
\* the 12 bytes of the iv and the 16 bytes of the tag
SyntheticPassword ==
    <<"aes-256-gcm-decrypt", <<"sha512", "application-id", application_id>>,
      keystore_result.size - 12 - 16>>

\* C12: the secret handed to fscrypt_unlock_ce_storage is selected by the
\* version byte of the .spblob alone: for version 2 the personalized
\* SHA-512 hash with label "fbe-key" of the synthetic password, for version
\* 3 the SP800-108 derivation with label "fbe-key" and context
\* "fbe-key-context" of the synthetic password.
C12_SecretByVersion ==
    Called("fscrypt_unlock_ce_storage") =>
        /\ VersionByte \in {2, 3}
        /\ VersionByte = 2 => secret = <<"hex-sha512", "fbe-key", SyntheticPassword>>
        /\ VersionByte = 3 =>
              secret = <<"sp800", "fbe-key", "fbe-key-context", SyntheticPassword>>

C12_Witness ==
    /\ Called("fscrypt_unlock_ce_storage")
    /\ VersionByte = 3
    /\ secret = <<"sp800", "fbe-key", "fbe-key-context", SyntheticPassword>>

\* C13: if the GCM tag of the inner envelope does not authenticate under the
\* key derived from the application id, the run fails and
\* fscrypt_unlock_ce_storage is never invoked with a secret derived from the
\* unauthenticated plaintext.
C13_TagFailureStopsUnlock ==
    (Called("ks.finish") /\ AnswerOf("ks.finish").ok /\ ~keystore_result.authentic)
        => (~Called("fscrypt_unlock_ce_storage") /\ ~Succeeded)

\* C14: the run returns success only if fscrypt_unlock_ce_storage and then
\* fscrypt_prepare_user_storage were both invoked, in that order, and both
\* succeeded; fscrypt_prepare_user_storage is never invoked after a failed
\* fscrypt_unlock_ce_storage, and fscrypt_unlock_ce_storage is never invoked
\* with an empty secret.
C14_SuccessMeansUnlockedAndPrepared ==
    /\ Succeeded =>
          /\ Len(calls) >= 2
          /\ calls[Len(calls) - 1] = "fscrypt_unlock_ce_storage"
          /\ calls[Len(calls)] = "fscrypt_prepare_user_storage"
          /\ AnswerOf("fscrypt_unlock_ce_storage")
          /\ AnswerOf("fscrypt_prepare_user_storage")
    /\ (Called("fscrypt_unlock_ce_storage") /\ ~AnswerOf("fscrypt_unlock_ce_storage"))
          => (~Called("fscrypt_prepare_user_storage") /\ Returned /\ ~retval)
    /\ Called("fscrypt_prepare_user_storage") =>
          CalledAfter("fscrypt_unlock_ce_storage", {"fscrypt_prepare_user_storage"})
    /\ Called("fscrypt_unlock_ce_storage") => secret # <<>>
    /\ (Called("ks.finish") /\ AnswerOf("ks.finish").ok /\ keystore_result.size < 12
           /\ pc # "inner_decrypt")
          => (secret = <<>> /\ Returned /\ ~retval /\ ~CalledAny(CeCalls))

C14_Witness ==
    /\ Succeeded
    /\ calls[Len(calls) - 1] = "fscrypt_unlock_ce_storage"
    /\ calls[Len(calls)] = "fscrypt_prepare_user_storage"

\* a buffer no byte of which is the output of a hash or key derivation:
\* zeros, bytes never written, or the literal default password
Wiped(buf) == \A i \in 1..Len(buf) : buf[i][1] \in {"lit", "uninit"}

\* C17: every buffer that holds derived secret material during an unlock is
\* overwritten before it is freed or goes out of scope: when the run
\* returns, password_token, application_id and the weaver key hold nothing
\* the run derived and no secret is left in the frame.
C17_SecretsWipedOnReturn ==
    Returned =>
        /\ Wiped(password_token)
        /\ Wiped(application_id)
        /\ weaver_key = NULL
        /\ secret = <<>>

\* C19: on the weaver path WeaverVerify is invoked only after the length of
\* the computed weaver key (64 bytes) has been compared with the key size
\* the weaver service reported, and not when the two differ.
C19_KeySizeCheckedBeforeVerify ==
    Called("weaver.WeaverVerify") =>
        /\ CalledAfter("weaver.GetKeySize", {"weaver.WeaverVerify"})
        /\ weaver_key_size = SHA512_DIGEST_LENGTH

\* the content of <handle>.weaver
WeaverFile == disk[".weaver"][0].data

\* C20: the slot passed to WeaverVerify is the host-endian 32-bit integer
\* stored in bytes 1..4 of the .weaver file, the four bytes that follow the
\* one-byte version, for every 5-byte .weaver content.
C20_SlotFromBytes1To4 ==
    (Called("weaver.WeaverVerify") /\ Len(WeaverFile) = 5) =>
        wd.slot = Int32(WeaverFile[5], WeaverFile[4], WeaverFile[3], WeaverFile[2])

\* the .pwd file Get_Password_Type reads, and the password type stored in it
PwdOnDisk == Get_Spblob_Data(disk, ".pwd")
PwdByte(off) == ByteAt(PwdOnDisk.data, off, 0)
StoredPasswordType == Int32(PwdByte(0), PwdByte(1), PwdByte(2), PwdByte(3))
StoredSaltLen == Int32(PwdByte(7), PwdByte(8), PwdByte(9), PwdByte(10))
StoredTypes == {-1} \cup 0..MaxPasswordType
Category(t) ==
    CASE t = 1 -> "Pattern" [] t = 2 -> "PasswordOrPin" [] t = 3 -> "Pin"
      [] t = 4 -> "Password" [] OTHER -> "Default"
\* Get_Password_Type has returned for a readable .pwd in the spblob directory
TypeReadFromPwd ==
    /\ pc # "Decrypt_User" /\ user_id <= MaxUserId
    /\ fs.spblob_dir /\ PwdOnDisk.found

OpOf(e) ==
    CASE e \in {"gk.verify", "Decrypt_User.gk.verify"} -> "gatekeeper verify"
      [] e \in AuthorizationRpcs -> "addAuthToken"
      [] e \in {"fscrypt_unlock_ce_storage", "Decrypt_User.fscrypt_unlock_ce_storage"}
            -> "fscrypt_unlock_ce_storage"
      [] e \in {"fscrypt_prepare_user_storage",
                "Decrypt_User.fscrypt_prepare_user_storage"}
            -> "fscrypt_prepare_user_storage"
      [] OTHER -> e
ExternalCalls ==
    {"weaver.WeaverVerify", "gk.verify", "Decrypt_User.gk.verify",
     "fscrypt_unlock_ce_storage", "Decrypt_User.fscrypt_unlock_ce_storage",
     "fscrypt_prepare_user_storage", "Decrypt_User.fscrypt_prepare_user_storage"}
        \cup AuthorizationRpcs \cup KeystoreOps
\* whether the call logged as e failed
FailedCall(e) ==
    CASE e = "weaver.WeaverVerify" -> AnswerOf(e).status # "OK"
      [] e = "gk.verify" ->
            IF AnswerOf("gk.getService") = "aidl"
            THEN AnswerOf("gk.verify.aidl").statusCode < STATUS_OK
            ELSE \/ ~AnswerOf("gk.verify.hidl").isOk
                 \/ AnswerOf("gk.verify.hidl").code < STATUS_OK
      [] e = "Decrypt_User.gk.verify" ->
            ~AnswerOf(e).isOk \/ AnswerOf(e).code < STATUS_OK
      [] e = "authz.addAuthToken" -> FALSE
      [] e = "authz.addAuthToken.null" -> TRUE
      [] e = "ks.getKeyEntry" -> AnswerOf(e) # "OK"
      [] e = "ks.finish" -> ~AnswerOf(e).ok
      [] OTHER -> ~AnswerOf(e)

\* C16: within one call of Decrypt_User every external operation is invoked
\* at most once, and after the first external operation that fails no
\* further external operation is invoked.
C16_OnceEachNoneAfterFailure ==
    /\ \A i, j \in 1..Len(calls) :
          (i < j /\ calls[i] \in ExternalCalls /\ calls[j] \in ExternalCalls)
              => OpOf(calls[i]) # OpOf(calls[j])
    /\ \A i, j \in 1..Len(calls) :
          (i < j /\ calls[i] \in ExternalCalls /\ FailedCall(calls[i]))
              => calls[j] \notin ExternalCalls

\* the candidate names of the .spblob, and Get_Spblob_Data having returned
Candidate(p) == disk[".spblob"][p]
LookedUp == pc = "Get_Spblob_Data.return"

\* C18 as stated: the content of the first candidate that can be read, in
\* the order <handle>, 0<handle>, 00<handle>, is returned, and not-found is
\* reported only when none of the three can be read.
C18_FirstReadableOfThree ==
    LookedUp =>
        /\ retval = (\E p \in Pads : Candidate(p).readable)
        /\ \A p \in Pads :
              (Candidate(p).readable /\ \A q \in 0..(p - 1) : ~Candidate(q).readable)
                  => spblob_data = Candidate(p).data

\* C18 amended: if <handle><suffix> exists it alone decides: its content is
\* returned if it can be read and not-found is reported if it cannot; only
\* if it does not exist is the first readable of 0<handle>, 00<handle>
\* returned, and not-found reported when neither can be read.
C18_ExistingFirstNameDecides ==
    LookedUp =>
        IF Candidate(0).exists
        THEN /\ retval = Candidate(0).readable
             /\ spblob_data = Candidate(0).data
        ELSE /\ retval = (\E p \in 1..NumPadded : Candidate(p).readable)
             /\ \A p \in 1..NumPadded :
                   (Candidate(p).readable
                       /\ \A q \in 1..(p - 1) : ~Candidate(q).readable)
                       => spblob_data = Candidate(p).data

C18_Witness ==
    /\ LookedUp
    /\ Candidate(0).exists /\ ~Candidate(0).readable
    /\ Candidate(1).readable
    /\ ~retval

\* the length fields a .pwd file declares, where the file holds them
DeclaredSaltLen == StoredSaltLen
DeclaredHandleLen ==
    Int32(PwdByte(11 + DeclaredSaltLen), PwdByte(12 + DeclaredSaltLen),
          PwdByte(13 + DeclaredSaltLen), PwdByte(14 + DeclaredSaltLen))
\* the file holds its 11-byte header, a salt of the declared positive
\* length, the handle length and a handle of the declared length
WellFormedPwd ==
    /\ Len(PwdOnDisk.data) >= 11
    /\ DeclaredSaltLen > 0
    /\ 11 + DeclaredSaltLen + 4 <= Len(PwdOnDisk.data)
    /\ DeclaredHandleLen >= 0
    /\ 11 + DeclaredSaltLen + 4 + DeclaredHandleLen <= Len(PwdOnDisk.data)

\* C21: Get_Password_Data never reads at or beyond the end of the file
\* data: a file shorter than the 11-byte header, or one whose declared
\* salt_len or handle_len is negative or exceeds the bytes that remain,
\* makes it return failure instead of copying salt or handle bytes.
C21_MalformedPwdRejected ==
    (pc = "Get_Password_Data.return" /\ PwdOnDisk.found /\ ~WellFormedPwd)
        => (~retval /\ pwd.salt = NULL /\ pwd.password_handle = NULL)

\* the positions of a call in the log
Positions(e) == {i \in 1..Len(calls) : calls[i] = e}
\* the keystore calls of the log, in the order made
KeystoreCalls == SelectSeq(calls, LAMBDA e : e \in KeystoreOps)
KeyEntryFailed == Called("ks.getKeyEntry") /\ AnswerOf("ks.getKeyEntry") # "OK"
CreateOperationFailed ==
    Called("ks.createOperation") /\ ~AnswerOf("ks.createOperation")
FinishFailed == Called("ks.finish") /\ ~AnswerOf("ks.finish").ok

\* C22: unwrapSyntheticPasswordBlob makes its keystore calls in the fixed
\* order getKeyEntry, createOperation, finish, each one only after its
\* predecessor succeeded; when any of them fails (a missing alias,
\* KEY_NOT_FOUND, included) the run returns with an empty secret and
\* without any later keystore call.
C22_KeystoreCallsInOrder ==
    /\ KeystoreCalls \in {<<>>, <<"ks.getKeyEntry">>,
                          <<"ks.getKeyEntry", "ks.createOperation">>,
                          <<"ks.getKeyEntry", "ks.createOperation", "ks.finish">>}
    /\ Called("ks.createOperation") => AnswerOf("ks.getKeyEntry") = "OK"
    /\ Called("ks.finish") => AnswerOf("ks.createOperation")
    /\ KeyEntryFailed => LastCall = "ks.getKeyEntry"
    /\ CreateOperationFailed => LastCall = "ks.createOperation"
    /\ FinishFailed => LastCall = "ks.finish"
    /\ (KeyEntryFailed \/ CreateOperationFailed \/ FinishFailed) =>
          (Returned /\ ~retval /\ secret = <<>>)

C22_Witness ==
    /\ Called("ks.getKeyEntry") /\ AnswerOf("ks.getKeyEntry") = "KEY_NOT_FOUND"
    /\ Returned /\ ~retval /\ secret = <<>>
    /\ ~Called("ks.createOperation")

\* the lookups made so far, and whether one of them found the service
Lookups == Len(kbr.answers)
FoundAt(i) == kbr.answers[i] # NULL
KbrReturned == pc = "getKeystoreBinderRetry.return"
\* at most 51 lookups and 50 waits, one wait before every lookup but the
\* first, nothing after the first lookup that found the service, and the
\* value returned is the last lookup's
KbrBounded ==
    /\ Lookups <= KEYSTORE_RETRY_COUNT + 1
    /\ kbr.waits <= KEYSTORE_RETRY_COUNT
    /\ Lookups > 0 => kbr.waits \in {Lookups - 1, Lookups}
    /\ \A i \in 1..Lookups : FoundAt(i) => (i = Lookups /\ kbr.waits = i - 1)
    /\ KbrReturned =>
          /\ Lookups > 0 /\ kbr.binder = kbr.answers[Lookups]
          /\ kbr.waits = Lookups - 1
          /\ kbr.binder = NULL =>
                (Lookups = KEYSTORE_RETRY_COUNT + 1 /\ \A i \in 1..Lookups : ~FoundAt(i))

\* C23: getKeystoreBinderRetry terminates: it makes at most 51 service
\* lookups and waits at most 50 times one second, returns the first
\* non-null binder without waiting any further, and returns null when
\* every lookup returned null.
C23_RetryTerminates == []KbrBounded /\ <>KbrReturned

C23_Witness ==
    /\ KbrReturned /\ kbr.binder = NULL
    /\ Lookups = KEYSTORE_RETRY_COUNT + 1 /\ kbr.waits = KEYSTORE_RETRY_COUNT

\* what Decrypt_User does itself before any Decrypt_User_Synth_Pass
DirectCalls == {"Get_Password_Type.fs.read.pwd",
                "Decrypt_User.fscrypt_unlock_ce_storage",
                "Decrypt_User.fscrypt_prepare_user_storage"}
DirectPcs == {"Decrypt_User", "Decrypt_CE_storage", "Decrypt_CE_storage.prepare", "done"}
\* Decrypt_CE_storage(user_id, "!") of line 1008 returned false, or true
DirectFailed ==
    \/ /\ Called("Decrypt_User.fscrypt_unlock_ce_storage")
       /\ ~AnswerOf("Decrypt_User.fscrypt_unlock_ce_storage")
    \/ /\ Called("Decrypt_User.fscrypt_prepare_user_storage")
       /\ ~AnswerOf("Decrypt_User.fscrypt_prepare_user_storage")
DirectSucceeded ==
    /\ Called("Decrypt_User.fscrypt_prepare_user_storage")
    /\ AnswerOf("Decrypt_User.fscrypt_prepare_user_storage")
InSynthPass ==
    pc \notin DirectPcs \/ \E i \in 1..Len(calls) : calls[i] \notin DirectCalls

\* C24: with the default credential "!", Decrypt_User first attempts
\* Decrypt_CE_storage(user, "!"); Decrypt_User_Synth_Pass, and with it any
\* keystore, weaver or persistent-database step, is entered only when that
\* attempt failed, and when it succeeds Decrypt_User returns true without
\* contacting any hardware service.
C24_DefaultTriesDirectUnlockFirst ==
    Password = DefaultCredential =>
        /\ \A i \in 1..Len(calls) : calls[i] \notin DirectCalls =>
              \E j \in 1..(i - 1) : calls[j] = "Decrypt_User.fscrypt_unlock_ce_storage"
        /\ InSynthPass => DirectFailed
        /\ DirectSucceeded =>
              /\ Returned /\ retval
              /\ \A i \in 1..Len(calls) : calls[i] \in DirectCalls

C24_Witness ==
    /\ Password = DefaultCredential
    /\ DirectFailed /\ Called("copySqliteDb") /\ Called("ks.getKeyEntry")
    /\ Returned

\* the legacy gatekeeper answered verify with an error or retry-timeout code
LegacyVerifyRefused ==
    /\ Called("Decrypt_User.gk.verify")
    /\ AnswerOf("Decrypt_User.gk.verify").isOk
    /\ AnswerOf("Decrypt_User.gk.verify").code < STATUS_OK

\* C25: on the legacy (non-synthetic) path of Decrypt_User,
\* fscrypt_unlock_ce_storage is attempted only if the gatekeeper verify
\* callback reported success, and the auth token buffer and length are read
\* only after the callback assigned them; when the callback reports an
\* error or retry-timeout, Decrypt_User returns false without attempting
\* the CE unlock.
C25_LegacyErrorStopsUnlock ==
    LegacyVerifyRefused =>
        /\ Returned /\ ~retval
        /\ LastCall = "Decrypt_User.gk.verify"
        /\ du.auth_token_len = Uninit

\* C26: addAuthToken is invoked only on an authorization service handle
\* that was obtained successfully; no call is made through a null handle.
C26_AddAuthTokenOnLiveService ==
    CalledAny(AuthorizationRpcs) =>
        /\ AnswerOf("authz.getService")
        /\ ~Called("authz.addAuthToken.null")
        /\ pc # "crashed"

\* C27: every heap buffer allocated during one Decrypt_User_Synth_Pass call
\* is freed exactly once before the call returns, on all paths.
C27_EveryBufferFreed == Returned => heap = {}

MountReturned == pc = "fscrypt_mount_metadata_encrypted.return"

\* C28: fscrypt_mount_metadata_encrypted returns true only if the
\* filesystem was actually mounted: when mount_via_fs_mgr fails, the
\* function returns false and sets neither ro.crypto.fs_crypto_blkdev nor
\* ro.crypto.metadata.enabled.
C28_TrueOnlyIfMounted ==
    MountReturned =>
        /\ retval => mnt.out.mounted
        /\ (Called("mount_via_fs_mgr") /\ ~mnt.out.mount_ok) =>
              /\ ~retval
              /\ ~Called("SetProperty.ro.crypto.fs_crypto_blkdev")
              /\ ~Called("SetProperty.ro.crypto.metadata.enabled")

\* option strings with an unknown cipher, an unknown flag, or three parts
RejectedOptionStrings ==
    {<<"aes-256-gcm">>, <<"adiantum", ":", "wrappedkey_v1">>,
     <<"adiantum", ":", "wrappedkey_v0", ":", "x">>}
\* the configurations the function is to refuse
ConfigRefused ==
    \/ mnt.in.encrypted_state \notin {"", "encrypted"}
    \/ /\ mnt.in.options_format_version = 1
       /\ \/ mnt.in.metadata_encryption_options # <<>>
          \/ mnt.in.checkpoint_blk /\ ~mnt.in.set_dun
    \/ mnt.in.options_format_version \notin {1, 2}
    \/ /\ mnt.in.options_format_version = 2
       /\ mnt.in.metadata_encryption_options \in RejectedOptionStrings

\* C30: fscrypt_mount_metadata_encrypted reads or generates no key and
\* creates no dm-default-key device unless the configuration validates: it
\* returns false before read_key when ro.crypto.state is neither empty nor
\* "encrypted", when the options format is version 1 and
\* metadata_encryption options are set or checkpoint_blk is used without
\* ro.crypto.set_dun, when the version is neither 1 nor 2, or when a
\* version-2 option string has an unknown cipher, an unknown flag or more
\* than two colon-separated parts.
C30_NoKeyUnlessConfigValid ==
    (ConfigRefused /\ pc # "fscrypt_mount_metadata_encrypted") =>
        /\ MountReturned /\ ~retval
        /\ calls = <<>>

C30_Witness ==
    /\ mnt.in.encrypted_state = "encrypted" /\ mnt.in.fstab = "entry"
    /\ mnt.in.options_format_version = 2
    /\ mnt.in.metadata_encryption_options = <<"adiantum", ":", "wrappedkey_v1">>
    /\ MountReturned /\ ~retval /\ calls = <<>>

DsuReturned == pc = "destroy_dsu_metadata_key.return"
\* the fstab has a /data entry whose metadata_key_dir is the DSU directory
SameAsHost == dsu.in.host = "same"
DestroyKeyFailed == dsu.out.failed # {}

\* C29 as stated: whenever the DSU key directory equals the host's /data
\* metadata_key_dir the function returns false, having destroyed and
\* removed nothing.
C29_SameDirAlwaysRefused ==
    (DsuReturned /\ SameAsHost) => (~retval /\ calls = <<>>)

\* C29: destroy_dsu_metadata_key returns true without any action when the
\* DSU key directory does not exist, whatever the host's directory is; for
\* an existing directory equal to the host's /data metadata_key_dir it
\* never destroys a key or removes a directory and returns false; it
\* removes the directory only if destroyKey succeeded for every one of /key
\* and /tmp that exists, and if any destroyKey fails it returns false and
\* leaves the directory in place.
C29_DsuKeySafety ==
    /\ SameAsHost => calls = <<>>
    /\ DestroyKeyFailed => ~Called("DeleteDirContentsAndDir")
    /\ Called("DeleteDirContentsAndDir") =>
          \A suffix \in dsu.in.present :
              Called("destroyKey" \o suffix) /\ suffix \notin dsu.out.failed
    /\ DsuReturned =>
          /\ ~dsu.in.exists => (retval /\ calls = <<>>)
          /\ (dsu.in.exists /\ SameAsHost) => ~retval
          /\ DestroyKeyFailed => ~retval

C29_Witness ==
    /\ dsu.in.exists /\ SameAsHost /\ dsu.in.present = {"/key", "/tmp"}
    /\ DsuReturned /\ ~retval /\ calls = <<>>

====
